---- MODULE Spec2Model ----
(***************************************************************************)
(* Model of src/analysis/vm.rs: the abstract-interpretation VM for 32-bit  *)
(* PowerPC (GprValue lattice, Gpr audit addresses, Cr, VM, the clone       *)
(* policies, VM::step, split_values_by_crb and mask_value).                *)
(*                                                                         *)
(* A u32 is kept at its full width.  TLC integers are 32-bit signed, so a  *)
(* u32 is the pair <<high half, low half>> of 16-bit halves and every      *)
(* operation on it (wrapping add/sub, compare, rotate, and, or, shift) is  *)
(* written on the halves.                                                  *)
(***************************************************************************)
EXTENDS Integers, Sequences, FiniteSets, TLC

VARIABLES
    obj,        \* the host object (ObjInfo) the trace runs against
    vm,         \* the VM being stepped
    res,        \* the StepResult of the last step call
    steps,      \* number of step calls made on this trace
    pc,         \* index of the instruction slot the driver steps next
    code,       \* history: the instruction decoded at each stepped address
    producer,   \* history: per GPR, the address of the step that wrote its entry
    leftOf,     \* history: per GPR, the CR fields whose latest compare read it as left operand
    prog,       \* jump-table scenario: the operands of the instruction sequence
    done,       \* jump-table scenario: the instructions of the sequence already stepped
    heap        \* fork scenario: the boxed VMs, the caller's box and the boxes of the forks

vars == <<obj, vm, res, steps, pc, code, producer, leftOf, prog, done, heap>>

----------------------------------------------------------------------------
(* u32 arithmetic on <<hi, lo>> halves                                     *)

Half == 256 * 256

U32(n) == <<n \div Half, n % Half>>

U32_MAX == <<Half - 1, Half - 1>>

U32_ZERO == <<0, 0>>

IsU32(x) == x[1] \in 0..(Half - 1) /\ x[2] \in 0..(Half - 1)

Lt32(a, b) == a[1] < b[1] \/ (a[1] = b[1] /\ a[2] < b[2])

Le32(a, b) == a = b \/ Lt32(a, b)

\* std::cmp::min / std::cmp::max on u32
Min32(a, b) == IF Lt32(b, a) THEN b ELSE a

Max32(a, b) == IF Lt32(a, b) THEN b ELSE a

\* u32::wrapping_add
wrapping_add(a, b) ==
    LET lo == a[2] + b[2]
        hi == a[1] + b[1] + (lo \div Half)
    IN  <<hi % Half, lo % Half>>

\* u32::wrapping_sub
wrapping_sub(a, b) ==
    LET lo == a[2] - b[2]
        borrow == IF lo < 0 THEN 1 ELSE 0
        hi == a[1] - b[1] - borrow
    IN  <<(hi + 2 * Half) % Half, (lo + Half) % Half>>

\* NonZeroU32::checked_add(4) / u32 addition that overflows: None on overflow
AddOverflows(a, b) ==
    LET lo == a[2] + b[2] IN a[1] + b[1] + (lo \div Half) >= Half

Pow2(k) == 2 ^ k

RECURSIVE And16(_, _, _)
And16(a, b, n) ==
    IF n = 0 THEN 0
    ELSE ((a % 2) * (b % 2)) + 2 * And16(a \div 2, b \div 2, n - 1)

RECURSIVE Or16(_, _, _)
Or16(a, b, n) ==
    IF n = 0 THEN 0
    ELSE (IF (a % 2) + (b % 2) > 0 THEN 1 ELSE 0) + 2 * Or16(a \div 2, b \div 2, n - 1)

\* u32 & u32
BitAnd32(a, b) == <<And16(a[1], b[1], 16), And16(a[2], b[2], 16)>>

\* u32 | u32
BitOr32(a, b) == <<Or16(a[1], b[1], 16), Or16(a[2], b[2], 16)>>

\* !u32
BitNot32(a) == <<Half - 1 - a[1], Half - 1 - a[2]>>

\* 1 << k for k in 0..31
Shl1(k) == IF k < 16 THEN <<0, Pow2(k)>> ELSE <<Pow2(k - 16), 0>>

\* (x as u32) << 16 : the low half moves up, the high half is shifted out
Shl16(a) == <<a[2], 0>>

\* u32::rotate_left(n): n is taken modulo 32
RotHalves(a, k) ==
    IF k = 0 THEN a
    ELSE <<((a[1] * Pow2(k)) % Half) + (a[2] \div Pow2(16 - k)),
           ((a[2] * Pow2(k)) % Half) + (a[1] \div Pow2(16 - k))>>

rotate_left(a, n) ==
    LET k == n % 32
    IN  IF k < 16 THEN RotHalves(a, k) ELSE RotHalves(<<a[2], a[1]>>, k - 16)

\* rotate_left by a u32 amount (rlwnm: the shift is a register constant)
rotate_left_u32(a, n) == rotate_left(a, n[2] % 32)

\* i16 as u32 (sign extension), simm in -32768..32767
SimmU32(simm) == IF simm >= 0 THEN <<0, simm>> ELSE <<Half - 1, Half + simm>>

\* u16 as u32
UimmU32(uimm) == <<0, uimm>>

\* u32::wrapping_add_signed(i32) for an offset that came from an i16
wrapping_add_signed(a, simm) == wrapping_add(a, SimmU32(simm))

----------------------------------------------------------------------------
(* Option, GprValue, Gpr, Cr, VM, BranchTarget, Branch, StepResult          *)

None == <<>>

Some(x) == <<x>>

IsSome(o) == o # <<>>

Unwrap(o) == o[1]

SectionAddress(section, address) == [section |-> section, address |-> address]

\* RelocationTarget::Address(SectionAddress) and the host's other variant
RT_Address(sa) == [t |-> "Address", sa |-> sa]

RT_External == [t |-> "External"]

Unknown == [t |-> "Unknown"]

Constant(v) == [t |-> "Constant", v |-> v]

Address(target) == [t |-> "Address", target |-> target]

ComparisonResult(crf) == [t |-> "ComparisonResult", crf |-> crf]

Range(min, max, step) == [t |-> "Range", min |-> min, max |-> max, step |-> step]

LoadIndexed(address, max_offset) ==
    [t |-> "LoadIndexed", address |-> address, max_offset |-> max_offset]

\* NonZeroU32::new
NonZeroU32_new(n) == IF n = U32_ZERO THEN None ELSE Some(n)

Gpr(value, hi_addr, lo_addr) == [value |-> value, hi_addr |-> hi_addr, lo_addr |-> lo_addr]

GprDefault == Gpr(Unknown, None, None)

Cr(left, right, signed) == [left |-> left, right |-> right, signed |-> signed]

CrDefault == Cr(Unknown, Unknown, FALSE)

GprIdx == 0..31

CrIdx == 0..7

BT_Unknown == [t |-> "Unknown"]

BT_Return == [t |-> "Return"]

BT_Address(target) == [t |-> "Address", target |-> target]

BT_JumpTable(address, size) == [t |-> "JumpTable", address |-> address, size |-> size]

Branch(target, link, bvm) == [target |-> target, link |-> link, vm |-> bvm]

SR_Continue == [t |-> "Continue"]

SR_LoadStore(address, source, source_reg) ==
    [t |-> "LoadStore", address |-> address, source |-> source, source_reg |-> source_reg]

SR_Illegal == [t |-> "Illegal"]

SR_Jump(target) == [t |-> "Jump", target |-> target]

SR_Branch(branches) == [t |-> "Branch", branches |-> branches]

----------------------------------------------------------------------------
(* The host object: kind, sections, relocation table, SDA bases            *)

\* SectionAddress + u32
SA_add(sa, n) == SectionAddress(sa.section, wrapping_add(sa.address, n))

\* SectionAddress::offset(i32)
SA_offset(sa, simm) == SectionAddress(sa.section, wrapping_add_signed(sa.address, simm))

\* ObjSection::contains: start <= addr < end
contains(section, addr) == Le32(section.start, addr) /\ Lt32(addr, section.end)

\* ObjSections::at_address: the section holding the address, if any
at_address(o, addr) ==
    LET hits == {i \in DOMAIN o.sections : contains(o.sections[i], addr)}
    IN  IF hits = {} THEN None ELSE Some(CHOOSE i \in hits : \A j \in hits : i <= j)

\* relocation_target_for(obj, ins_addr, None).ok().flatten()
relocation_target_for(o, ins_addr) ==
    LET hits == {r \in o.relocs : r.at = ins_addr}
    IN  IF hits = {} THEN None ELSE Some((CHOOSE r \in hits : TRUE).target)

section_address_for(o, ins_addr, target_addr) ==
    LET reloc == relocation_target_for(o, ins_addr)
    IN  IF IsSome(reloc) THEN reloc
        ELSE IF o.kind = "Executable" THEN
            LET found == at_address(o, target_addr)
            IN  IF IsSome(found)
                THEN Some(RT_Address(SectionAddress(Unwrap(found), target_addr)))
                ELSE None
        ELSE IF contains(o.sections[ins_addr.section], target_addr)
            THEN Some(RT_Address(SectionAddress(ins_addr.section, target_addr)))
            ELSE None

----------------------------------------------------------------------------
(* Gpr methods                                                             *)

\* a wrong variant of set_direct: the audit addresses are left as they were
set_direct_keeps_audits(gpr, value) == Gpr(value, gpr.hi_addr, gpr.lo_addr)

set_direct(gpr, value) == Gpr(value, None, None)

set_hi(gpr, value, addr) == Gpr(value, Some(addr), None)

\* a wrong variant of set_lo: lo_addr is always the latest completing address
set_lo_takes_latest(gpr, value, addr, hi_gpr) ==
    Gpr(value, hi_gpr.hi_addr, Some(addr))

\* a wrong variant of set_lo: a missing hi_addr is filled with the completing address
set_lo_fills_hi(gpr, value, addr, hi_gpr) ==
    [value |-> value,
     hi_addr |-> IF IsSome(hi_gpr.hi_addr) THEN hi_gpr.hi_addr ELSE Some(addr),
     lo_addr |-> IF IsSome(hi_gpr.lo_addr) THEN hi_gpr.lo_addr ELSE Some(addr)]

set_lo(gpr, value, addr, hi_gpr) ==
    Gpr(value, hi_gpr.hi_addr,
        Some(IF IsSome(hi_gpr.lo_addr) THEN Unwrap(hi_gpr.lo_addr) ELSE addr))

Gpr_address(gpr, o, ins_addr) ==
    CASE gpr.value.t = "Constant" -> section_address_for(o, ins_addr, gpr.value.v)
      [] gpr.value.t = "Address" -> Some(gpr.value.target)
      [] OTHER -> None

----------------------------------------------------------------------------
(* VM constructors and clone policies                                      *)

VM_new == [gpr |-> [i \in GprIdx |-> GprDefault],
           cr |-> [i \in CrIdx |-> CrDefault],
           ctr |-> Unknown]

new_with_base(sda2_base, sda_base) ==
    LET v1 == IF IsSome(sda2_base)
              THEN [VM_new EXCEPT !.gpr[2].value = Constant(Unwrap(sda2_base))]
              ELSE VM_new
    IN  IF IsSome(sda_base)
        THEN [v1 EXCEPT !.gpr[13].value = Constant(Unwrap(sda_base))]
        ELSE v1

new_from_obj(o) == new_with_base(o.sda2_base, o.sda_base)

\* a wrong variant of clone_for_link: r2 and r13 keep their audit addresses
clone_for_link_full(self) ==
    [VM_new EXCEPT !.gpr[2] = self.gpr[2], !.gpr[13] = self.gpr[13]]

clone_for_link(self) ==
    [VM_new EXCEPT !.gpr[2].value = self.gpr[2].value,
                   !.gpr[13].value = self.gpr[13].value]

\* a wrong variant of clone_for_return: r13 is not carried over
clone_for_return_no_sda(self) ==
    [VM_new EXCEPT !.gpr = [i \in GprIdx |->
        IF i \in {1, 2} THEN [GprDefault EXCEPT !.value = self.gpr[i].value]
        ELSE IF i \in 14..31 THEN self.gpr[i]
        ELSE GprDefault]]

clone_for_return(self) ==
    [VM_new EXCEPT !.gpr = [i \in GprIdx |->
        IF i \in {1, 2, 13} THEN [GprDefault EXCEPT !.value = self.gpr[i].value]
        ELSE IF i \in 14..31 THEN self.gpr[i]
        ELSE GprDefault]]

clone_all(self) == self

set_comparison_result(self, value, crf) ==
    [self EXCEPT !.gpr = [i \in GprIdx |->
        IF self.gpr[i].value = ComparisonResult(crf)
        THEN [self.gpr[i] EXCEPT !.value = value]
        ELSE self.gpr[i]]]

----------------------------------------------------------------------------
(* split_values_by_crb and mask_value                                      *)

\* a wrong variant of split_lt: the refined ranges restart with stride 1
split_lt_unit_stride(left, right) ==
    IF left.t = "Range" /\ right.t = "Constant" THEN
        <<Range(Max32(left.min, right.v), Max32(left.max, right.v), U32(1)),
          Range(Min32(left.min, wrapping_sub(right.v, U32(1))),
                Min32(left.max, wrapping_sub(right.v, U32(1))), U32(1))>>
    ELSE IF right.t = "Constant" THEN
        <<Range(right.v, U32_MAX, U32(1)),
          Range(U32_ZERO, wrapping_sub(right.v, U32(1)), U32(1))>>
    ELSE <<left, left>>

\* crb 0 (lt): <<left >= right, left < right>>
split_lt(left, right) ==
    IF left.t = "Range" /\ right.t = "Constant" THEN
        <<Range(Max32(left.min, right.v), Max32(left.max, right.v), left.step),
          Range(Min32(left.min, wrapping_sub(right.v, U32(1))),
                Min32(left.max, wrapping_sub(right.v, U32(1))), left.step)>>
    ELSE IF right.t = "Constant" THEN
        <<Range(right.v, U32_MAX, U32(1)),
          Range(U32_ZERO, wrapping_sub(right.v, U32(1)), U32(1))>>
    ELSE <<left, left>>

\* a wrong variant of split_gt: the bound itself is left out of the
\* not-greater side
split_gt_exclusive(left, right) ==
    IF left.t = "Range" /\ right.t = "Constant" THEN
        <<Range(Min32(left.min, right.v), Min32(left.max, right.v), left.step),
          Range(Max32(left.min, wrapping_add(right.v, U32(1))),
                Max32(left.max, wrapping_add(right.v, U32(1))), left.step)>>
    ELSE IF right.t = "Constant" THEN
        <<Range(U32_ZERO, wrapping_sub(right.v, U32(1)), U32(1)),
          Range(wrapping_add(right.v, U32(1)), U32_MAX, U32(1))>>
    ELSE <<left, left>>

\* crb 1 (gt): <<left <= right, left > right>>
split_gt(left, right) ==
    IF left.t = "Range" /\ right.t = "Constant" THEN
        <<Range(Min32(left.min, right.v), Min32(left.max, right.v), left.step),
          Range(Max32(left.min, wrapping_add(right.v, U32(1))),
                Max32(left.max, wrapping_add(right.v, U32(1))), left.step)>>
    ELSE IF right.t = "Constant" THEN
        <<Range(U32_ZERO, right.v, U32(1)),
          Range(wrapping_add(right.v, U32(1)), U32_MAX, U32(1))>>
    ELSE <<left, left>>

\* crb 2 (eq): <<left != right, left == right>>
split_eq(left, right) ==
    IF left.t = "Constant" /\ right.t = "Constant" THEN
        <<IF left.v = right.v THEN Unknown ELSE left, Constant(right.v)>>
    ELSE IF right.t = "Constant" THEN
        <<left, Constant(right.v)>>
    ELSE <<left, left>>

\* the pair <<value if the CR bit is false, value if it is true>>
split_values_by_crb(crb, left, right) ==
    CASE crb = 0 -> split_lt(left, right)
      [] crb = 1 -> split_gt(left, right)
      [] crb = 2 -> split_eq(left, right)
      [] crb = 3 -> <<left, left>>

\* the u32 whose set bits (0 = least significant) are exactly those of S
RECURSIVE SumPow(_)
SumPow(S) ==
    IF S = {} THEN 0
    ELSE LET k == CHOOSE k \in S : TRUE IN Pow2(k) + SumPow(S \ {k})

BitsToU32(S) == <<SumPow({k - 16 : k \in S \cap 16..31}), SumPow(S \cap 0..15)>>

\* let mut mask = 0; for bit in from..=to { mask |= 1 << (31 - bit) }:
\* the loop sets bit 31 - bit for every bit of from..=to and no other
MaskSetBits(from, to) == BitsToU32({31 - bit : bit \in from..to})

\* a wrong variant of MaskClearBits: the loop runs to its upper bound inclusive
MaskClearBits_inclusive(from, to) ==
    BitsToU32((0..31) \ {31 - bit : bit \in from..to})

\* let mut mask = u32::MAX; for bit in from..to { mask &= !(1 << (31 - bit)) }:
\* the loop clears bit 31 - bit for every bit of from..to (to excluded) and no other
MaskClearBits(from, to) == BitsToU32((0..31) \ {31 - bit : bit \in from..(to - 1)})

mask_value(begin, end) ==
    IF begin <= end THEN MaskSetBits(begin, end)
    ELSE IF begin = end + 1 THEN U32_MAX
    ELSE MaskClearBits(end + 1, begin)

----------------------------------------------------------------------------
(* Decoded instructions (ppc750cl::Ins): the opcode and the operand fields *)
(* the VM reads.  A field an opcode does not have is 0.                    *)

InsBase(op) ==
    [op |-> op, rA |-> 0, rB |-> 0, rD |-> 0, rS |-> 0, simm |-> 0, uimm |-> 0,
     SH |-> 0, MB |-> 0, ME |-> 0, crfD |-> 0, BO |-> 0, BI |-> 0, L |-> 0,
     LK |-> FALSE, AA |-> FALSE, spr |-> 0, dest |-> U32_ZERO, defs |-> {}]

I_Add(rD, rA, rB) == [InsBase("Add") EXCEPT !.rD = rD, !.rA = rA, !.rB = rB]

I_Addis(rD, rA, simm) == [InsBase("Addis") EXCEPT !.rD = rD, !.rA = rA, !.simm = simm]

\* op is Addi, Addic or Addic_
I_Addi(op, rD, rA, simm) == [InsBase(op) EXCEPT !.rD = rD, !.rA = rA, !.simm = simm]

I_Ori(rA, rS, uimm) == [InsBase("Ori") EXCEPT !.rA = rA, !.rS = rS, !.uimm = uimm]

I_Or(rA, rS, rB) == [InsBase("Or") EXCEPT !.rA = rA, !.rS = rS, !.rB = rB]

I_Cmp(crfD, L, rA, rB) ==
    [InsBase("Cmp") EXCEPT !.crfD = crfD, !.L = L, !.rA = rA, !.rB = rB]

I_Cmpl(crfD, L, rA, rB) ==
    [InsBase("Cmpl") EXCEPT !.crfD = crfD, !.L = L, !.rA = rA, !.rB = rB]

I_Cmpi(crfD, L, rA, simm) ==
    [InsBase("Cmpi") EXCEPT !.crfD = crfD, !.L = L, !.rA = rA, !.simm = simm]

I_Cmpli(crfD, L, rA, uimm) ==
    [InsBase("Cmpli") EXCEPT !.crfD = crfD, !.L = L, !.rA = rA, !.uimm = uimm]

I_Rlwinm(rA, rS, SH, MB, ME) ==
    [InsBase("Rlwinm") EXCEPT !.rA = rA, !.rS = rS, !.SH = SH, !.MB = MB, !.ME = ME]

I_Rlwnm(rA, rS, rB, MB, ME) ==
    [InsBase("Rlwnm") EXCEPT !.rA = rA, !.rS = rS, !.rB = rB, !.MB = MB, !.ME = ME]

I_B(dest, LK, AA) == [InsBase("B") EXCEPT !.dest = dest, !.LK = LK, !.AA = AA]

I_Bc(BO, BI, dest, LK) ==
    [InsBase("Bc") EXCEPT !.BO = BO, !.BI = BI, !.dest = dest, !.LK = LK]

I_Bcctr(BO, BI, LK) == [InsBase("Bcctr") EXCEPT !.BO = BO, !.BI = BI, !.LK = LK]

I_Bclr(BO, BI, LK) == [InsBase("Bclr") EXCEPT !.BO = BO, !.BI = BI, !.LK = LK]

I_Lwzx(rD, rA, rB) == [InsBase("Lwzx") EXCEPT !.rD = rD, !.rA = rA, !.rB = rB]

I_Mtspr(spr, rS) == [InsBase("Mtspr") EXCEPT !.spr = spr, !.rS = rS]

I_Mfspr(rD, spr) == [InsBase("Mfspr") EXCEPT !.rD = rD, !.spr = spr]

\* a D-form load or store: op rD|rS, simm(rA)
I_LoadStore(op, rD, rA, simm) == [InsBase(op) EXCEPT !.rD = rD, !.rA = rA, !.simm = simm]

\* an opcode step has no arm for; defs are the GPRs the decoder says it writes
I_Other(op, defs) == [InsBase(op) EXCEPT !.defs = defs]

----------------------------------------------------------------------------
(* Opcode classification helpers                                           *)

LoadOps == {"Lbz", "Lbzu", "Lha", "Lhau", "Lhz", "Lhzu", "Lmw", "Lwz", "Lwzu"}

LoadfOps == {"Lfd", "Lfdu", "Lfs", "Lfsu"}

StoreOps == {"Stb", "Stbu", "Sth", "Sthu", "Stmw", "Stw", "Stwu"}

StorefOps == {"Stfd", "Stfdu", "Stfs", "Stfsu"}

UpdateOps ==
    {"Lbzu", "Lbzux", "Lfdu", "Lfdux", "Lfsu", "Lfsux", "Lhau", "Lhaux",
     "Lhzu", "Lhzux", "Lwzu", "Lwzux", "Stbu", "Stbux", "Stfdu", "Stfdux",
     "Stfsu", "Stfsux", "Sthu", "Sthux", "Stwu", "Stwux"}

is_load_op(op) == op \in LoadOps

is_loadf_op(op) == op \in LoadfOps

is_store_op(op) == op \in StoreOps

is_storef_op(op) == op \in StorefOps

is_load_store_op(op) ==
    is_load_op(op) \/ is_loadf_op(op) \/ is_store_op(op) \/ is_storef_op(op)

is_update_op(op) == op \in UpdateOps

----------------------------------------------------------------------------
(* VM::step, one operator per match arm.  Each arm yields the mutated VM   *)
(* (or, for the control-flow arms, the StepResult).                        *)

\* add rD, rA, rB
step_Add(self, o, ins_addr, ins) ==
    LET left == self.gpr[ins.rA].value
        right == self.gpr[ins.rB].value
        value ==
            IF left.t = "Constant" /\ right.t = "Constant"
                THEN Constant(wrapping_add(left.v, right.v))
            ELSE IF left.t = "Address" /\ left.target.t = "Address" /\ right.t = "Constant"
                THEN Address(RT_Address(SA_add(left.target.sa, right.v)))
            ELSE IF left.t = "Constant" /\ right.t = "Address" /\ right.target.t = "Address"
                THEN Address(RT_Address(SA_add(right.target.sa, left.v)))
            ELSE Unknown
    IN  [self EXCEPT !.gpr[ins.rD] = set_direct(@, value)]

\* addis rD, rA, SIMM
step_Addis(self, o, ins_addr, ins) ==
    LET reloc == relocation_target_for(o, ins_addr)
    IN  IF IsSome(reloc)
        THEN [self EXCEPT !.gpr[ins.rD] = set_hi(@, Address(Unwrap(reloc)), ins_addr)]
        ELSE
            LET left == IF ins.rA = 0 THEN Constant(U32_ZERO) ELSE self.gpr[ins.rA].value
                value == IF left.t = "Constant"
                         THEN Constant(wrapping_add(left.v, Shl16(SimmU32(ins.simm))))
                         ELSE Unknown
            IN  IF ins.rA = 0
                THEN [self EXCEPT !.gpr[ins.rD] = set_hi(@, value, ins_addr)]
                ELSE [self EXCEPT !.gpr[ins.rD] = set_direct(@, value)]

\* addi rD, rA, SIMM / addic rD, rA, SIMM / addic. rD, rA, SIMM
step_Addi(self, o, ins_addr, ins) ==
    LET reloc == relocation_target_for(o, ins_addr)
    IN  IF IsSome(reloc)
        THEN [self EXCEPT !.gpr[ins.rD] =
                set_lo(@, Address(Unwrap(reloc)), ins_addr, self.gpr[ins.rA])]
        ELSE
            LET left == IF ins.rA = 0 /\ ins.op = "Addi"
                        THEN Constant(U32_ZERO) ELSE self.gpr[ins.rA].value
                value ==
                    IF left.t = "Constant"
                        THEN Constant(wrapping_add(left.v, SimmU32(ins.simm)))
                    ELSE IF left.t = "Address" /\ left.target.t = "Address"
                        THEN Address(RT_Address(SA_offset(left.target.sa, ins.simm)))
                    ELSE Unknown
            IN  IF ins.rA = 0
                THEN [self EXCEPT !.gpr[ins.rD] = set_direct(@, value)]
                ELSE [self EXCEPT !.gpr[ins.rD] =
                        set_lo(@, value, ins_addr, self.gpr[ins.rA])]

\* ori rA, rS, UIMM
step_Ori(self, o, ins_addr, ins) ==
    LET reloc == relocation_target_for(o, ins_addr)
    IN  IF IsSome(reloc)
        THEN [self EXCEPT !.gpr[ins.rA] =
                set_lo(@, Address(Unwrap(reloc)), ins_addr, self.gpr[ins.rS])]
        ELSE
            LET src == self.gpr[ins.rS].value
                value == IF src.t = "Constant"
                         THEN Constant(BitOr32(src.v, UimmU32(ins.uimm)))
                         ELSE Unknown
            IN  [self EXCEPT !.gpr[ins.rA] = set_lo(@, value, ins_addr, self.gpr[ins.rS])]

\* a wrong variant of step_Or: the register copy carries the value only
step_Or_value_only(self, o, ins_addr, ins) ==
    IF ins.rS = ins.rB
    THEN [self EXCEPT !.gpr[ins.rA] = set_direct(@, self.gpr[ins.rS].value)]
    ELSE
        LET left == self.gpr[ins.rS].value
            right == self.gpr[ins.rB].value
            value == IF left.t = "Constant" /\ right.t = "Constant"
                     THEN Constant(BitOr32(left.v, right.v))
                     ELSE Unknown
        IN  [self EXCEPT !.gpr[ins.rA] = set_direct(@, value)]

\* or rA, rS, rB
step_Or(self, o, ins_addr, ins) ==
    IF ins.rS = ins.rB
    THEN [self EXCEPT !.gpr[ins.rA] = self.gpr[ins.rS]]
    ELSE
        LET left == self.gpr[ins.rS].value
            right == self.gpr[ins.rB].value
            value == IF left.t = "Constant" /\ right.t = "Constant"
                     THEN Constant(BitOr32(left.v, right.v))
                     ELSE Unknown
        IN  [self EXCEPT !.gpr[ins.rA] = set_direct(@, value)]

\* cmp / cmpi / cmpl / cmpli [crfD], [L], rA, rB|SIMM|UIMM
\* a wrong variant of step_Cmp: the right operand is read after rA was tagged
step_Cmp_tag_first(self, o, ins_addr, ins) ==
    IF ins.L = 0 THEN
        LET tagged == [self EXCEPT !.gpr[ins.rA].value = ComparisonResult(ins.crfD)]
            right == CASE ins.op \in {"Cmp", "Cmpl"} -> tagged.gpr[ins.rB].value
                       [] ins.op = "Cmpi" -> Constant(SimmU32(ins.simm))
                       [] ins.op = "Cmpli" -> Constant(UimmU32(ins.uimm))
        IN  [tagged EXCEPT !.cr[ins.crfD] =
                 Cr(self.gpr[ins.rA].value, right, ins.op \in {"Cmp", "Cmpi"})]
    ELSE self

step_Cmp(self, o, ins_addr, ins) ==
    IF ins.L = 0 THEN
        LET left_reg == ins.rA
            left == self.gpr[left_reg].value
            right == CASE ins.op = "Cmp" -> self.gpr[ins.rB].value
                       [] ins.op = "Cmpl" -> self.gpr[ins.rB].value
                       [] ins.op = "Cmpi" -> Constant(SimmU32(ins.simm))
                       [] ins.op = "Cmpli" -> Constant(UimmU32(ins.uimm))
            signed == ins.op \in {"Cmp", "Cmpi"}
            crf == ins.crfD
        IN  [self EXCEPT !.cr[crf] = Cr(left, right, signed),
                         !.gpr[left_reg].value = ComparisonResult(crf)]
    ELSE self

\* a wrong variant of rlw_value: a Constant source is given up as Unknown
rlw_value_const_unknown(src, sh, mask) ==
    IF src.t = "Constant"
        THEN Unknown
    ELSE IF src.t = "Range"
        THEN Range(BitAnd32(rotate_left_u32(src.min, sh), mask),
                   BitAnd32(rotate_left_u32(src.max, sh), mask),
                   rotate_left_u32(src.step, sh))
    ELSE Range(U32_ZERO, mask, rotate_left_u32(U32(1), sh))

\* a wrong variant of rlw_value: the step of the fresh Range is left unrotated
rlw_value_unrotated_step(src, sh, mask) ==
    IF src.t = "Constant"
        THEN Constant(BitAnd32(rotate_left_u32(src.v, sh), mask))
    ELSE IF src.t = "Range"
        THEN Range(BitAnd32(rotate_left_u32(src.min, sh), mask),
                   BitAnd32(rotate_left_u32(src.max, sh), mask),
                   rotate_left_u32(src.step, sh))
    ELSE Range(U32_ZERO, mask, U32(1))

\* the rotate-and-mask of an abstract value (the inner match of the Rlwinm | Rlwnm arm)
rlw_value(src, sh, mask) ==
    IF src.t = "Constant"
        THEN Constant(BitAnd32(rotate_left_u32(src.v, sh), mask))
    ELSE IF src.t = "Range"
        THEN Range(BitAnd32(rotate_left_u32(src.min, sh), mask),
                   BitAnd32(rotate_left_u32(src.max, sh), mask),
                   rotate_left_u32(src.step, sh))
    ELSE Range(U32_ZERO, mask, rotate_left_u32(U32(1), sh))

\* rlwinm rA, rS, SH, MB, ME / rlwnm rA, rS, rB, MB, ME
step_Rlw(self, o, ins_addr, ins) ==
    LET shift == IF ins.op = "Rlwinm" THEN Some(U32(ins.SH))
                 ELSE IF self.gpr[ins.rB].value.t = "Constant"
                      THEN Some(self.gpr[ins.rB].value.v)
                      ELSE None
        value == IF IsSome(shift)
                 THEN rlw_value(self.gpr[ins.rS].value, Unwrap(shift),
                                mask_value(ins.MB, ins.ME))
                 ELSE Unknown
    IN  [self EXCEPT !.gpr[ins.rA] = set_direct(@, value)]

\* max_offset.and_then(|n| n.checked_add(4))
jump_table_size(max_offset) ==
    IF IsSome(max_offset) /\ ~AddOverflows(Unwrap(max_offset), U32(4))
    THEN Some(wrapping_add(Unwrap(max_offset), U32(4)))
    ELSE None

\* a wrong variant of bcctr_target: the link bit is not consulted
bcctr_target_any_link(self, o, ins_addr, ins) ==
    IF self.ctr.t = "Constant" THEN
        LET target == section_address_for(o, ins_addr, self.ctr.v)
        IN  IF IsSome(target) THEN BT_Address(Unwrap(target)) ELSE BT_Unknown
    ELSE IF self.ctr.t = "Address" THEN BT_Address(self.ctr.target)
    ELSE IF self.ctr.t = "LoadIndexed" THEN
        BT_JumpTable(self.ctr.address, jump_table_size(self.ctr.max_offset))
    ELSE BT_Unknown

\* the Bcctr arm of the branch target: the match on self.ctr
bcctr_target(self, o, ins_addr, ins) ==
    IF self.ctr.t = "Constant" THEN
        LET target == section_address_for(o, ins_addr, self.ctr.v)
        IN  IF IsSome(target) THEN BT_Address(Unwrap(target)) ELSE BT_Unknown
    ELSE IF self.ctr.t = "Address" THEN BT_Address(self.ctr.target)
    ELSE IF self.ctr.t = "LoadIndexed" /\ ~ins.LK THEN
        BT_JumpTable(self.ctr.address, jump_table_size(self.ctr.max_offset))
    ELSE BT_Unknown

\* the target of b / bc / bcctr / bclr
branch_target(self, o, ins_addr, ins) ==
    IF ins.op = "Bcctr" THEN bcctr_target(self, o, ins_addr, ins)
    ELSE IF ins.op = "Bclr" THEN BT_Return
    ELSE
        LET target == section_address_for(o, ins_addr, ins.dest)
        IN  IF IsSome(target) THEN BT_Address(Unwrap(target)) ELSE BT_Unknown

\* a wrong variant of link_branches: the fallthrough keeps the whole VM
link_branches_keep_all(self, ins_addr, target) ==
    <<Branch(BT_Address(RT_Address(SA_add(ins_addr, U32(4)))), FALSE, clone_all(self)),
      Branch(target, TRUE, clone_for_link(self))>>

\* the two forks of a branch with link (function call semantics)
link_branches(self, ins_addr, target) ==
    <<Branch(BT_Address(RT_Address(SA_add(ins_addr, U32(4)))), FALSE, clone_for_return(self)),
      Branch(target, TRUE, clone_for_link(self))>>

\* a wrong variant of fork_values: the two polarities exchanged
fork_values_exchanged(BO, f_val, t_val) ==
    IF And16(BO, 30, 5) = 4 THEN Some(<<f_val, t_val>>)
    ELSE IF And16(BO, 30, 5) = 12 THEN Some(<<t_val, f_val>>)
    ELSE None

\* the values set_comparison_result installs in <<branches[0], branches[1]>>:
\* branch if false (BO & 0b11110 == 0b00100), branch if true (== 0b01100), or none
fork_values(BO, f_val, t_val) ==
    IF And16(BO, 30, 5) = 4 THEN Some(<<t_val, f_val>>)
    ELSE IF And16(BO, 30, 5) = 12 THEN Some(<<f_val, t_val>>)
    ELSE None

\* the two forks of a conditional branch, refined by the tracked CR field
cond_branches(self, ins_addr, ins, target) ==
    LET crf == ins.BI \div 4
        crb == ins.BI % 4
        split == split_values_by_crb(crb, self.cr[crf].left, self.cr[crf].right)
        values == fork_values(ins.BO, split[1], split[2])
        not_taken == Branch(BT_Address(RT_Address(SA_add(ins_addr, U32(4)))), FALSE,
                            clone_all(self))
        taken == Branch(target, ins.LK, clone_all(self))
    IN  IF IsSome(values) THEN
            <<[not_taken EXCEPT !.vm = set_comparison_result(@, Unwrap(values)[1], crf)],
              [taken EXCEPT !.vm = set_comparison_result(@, Unwrap(values)[2], crf)]>>
        ELSE <<not_taken, taken>>

\* b[l][a] / b[c][l][a] / b[c]ctr[l] / b[c]lr[l]: the StepResult
step_Branch(self, o, ins_addr, ins) ==
    IF ins.op = "B" /\ ins.LK /\ ins.AA THEN SR_Jump(BT_Unknown)
    ELSE
        LET target == branch_target(self, o, ins_addr, ins)
        IN  IF ins.LK THEN SR_Branch(link_branches(self, ins_addr, target))
            ELSE IF ins.op = "B" \/ And16(ins.BO, 20, 5) = 20 THEN SR_Jump(target)
            ELSE SR_Branch(cond_branches(self, ins_addr, ins, target))

\* a wrong variant of lwzx_value: the alignment test max & 3 == 0 is dropped
lwzx_value_unaligned(left, right) ==
    IF IsSome(left) /\ right.t = "Range"
       /\ Lt32(right.max, wrapping_sub(U32_MAX, U32(4)))
        THEN LoadIndexed(Unwrap(left), NonZeroU32_new(right.max))
    ELSE IF IsSome(left)
        THEN LoadIndexed(Unwrap(left), None)
    ELSE Unknown

\* a wrong variant of lwzx_value: the bound max < u32::MAX - 4 is dropped
lwzx_value_unbounded(left, right) ==
    IF IsSome(left) /\ right.t = "Range"
       /\ BitAnd32(right.max, U32(3)) = U32_ZERO
        THEN LoadIndexed(Unwrap(left), NonZeroU32_new(right.max))
    ELSE IF IsSome(left)
        THEN LoadIndexed(Unwrap(left), None)
    ELSE Unknown

\* the value lwzx loads: the match on (rA's address, rB's value)
lwzx_value(left, right) ==
    IF IsSome(left) /\ right.t = "Range"
       /\ Lt32(right.max, wrapping_sub(U32_MAX, U32(4)))
       /\ BitAnd32(right.max, U32(3)) = U32_ZERO
        THEN LoadIndexed(Unwrap(left), NonZeroU32_new(right.max))
    ELSE IF IsSome(left)
        THEN LoadIndexed(Unwrap(left), None)
    ELSE Unknown

\* lwzx rD, rA, rB
step_Lwzx(self, o, ins_addr, ins) ==
    LET left == Gpr_address(self.gpr[ins.rA], o, ins_addr)
        right == self.gpr[ins.rB].value
    IN  [self EXCEPT !.gpr[ins.rD] = set_direct(@, lwzx_value(left, right))]

\* mtspr SPR, rS
step_Mtspr(self, o, ins_addr, ins) ==
    IF ins.spr = 9 THEN [self EXCEPT !.ctr = self.gpr[ins.rS].value] ELSE self

\* mfspr rD, SPR
step_Mfspr(self, o, ins_addr, ins) ==
    LET value == IF ins.spr = 9 THEN self.ctr ELSE Unknown
    IN  [self EXCEPT !.gpr[ins.rD] = set_direct(@, value)]

\* a wrong variant of step_LoadStore: the source entry is read after the rD clobber
step_LoadStore_late_source(self, o, ins_addr, ins) ==
    LET source == ins.rA
        base == self.gpr[source].value
        resolved == IF base.t = "Constant"
                    THEN section_address_for(o, ins_addr,
                                             wrapping_add(base.v, SimmU32(ins.simm)))
                    ELSE None
        target == IF base.t = "Address" THEN Some(base.target) ELSE resolved
        vm1 == IF IsSome(target) THEN
                   IF is_update_op(ins.op)
                   THEN [self EXCEPT !.gpr[source] =
                            set_lo(@, Address(Unwrap(target)), ins_addr, self.gpr[source])]
                   ELSE self
               ELSE IF base.t # "Constant" /\ is_update_op(ins.op)
                   THEN [self EXCEPT !.gpr[source] = set_direct(@, Unknown)]
               ELSE self
        vm2 == IF is_load_op(ins.op)
               THEN [vm1 EXCEPT !.gpr[ins.rD] = set_direct(@, Unknown)]
               ELSE vm1
        result == IF IsSome(target)
                  THEN SR_LoadStore(Unwrap(target), vm2.gpr[source], source)
                  ELSE SR_Continue
    IN  [vm |-> vm2, result |-> result]

\* op if is_load_store_op(op): the mutated VM and the StepResult
step_LoadStore(self, o, ins_addr, ins) ==
    LET source == ins.rA
        base == self.gpr[source].value
        resolved == IF base.t = "Constant"
                    THEN section_address_for(o, ins_addr,
                                             wrapping_add(base.v, SimmU32(ins.simm)))
                    ELSE None
        target == IF base.t = "Address" THEN Some(base.target) ELSE resolved
        vm1 == IF IsSome(target) THEN
                   IF is_update_op(ins.op)
                   THEN [self EXCEPT !.gpr[source] =
                            set_lo(@, Address(Unwrap(target)), ins_addr, self.gpr[source])]
                   ELSE self
               ELSE IF base.t # "Constant" /\ is_update_op(ins.op)
                   THEN [self EXCEPT !.gpr[source] = set_direct(@, Unknown)]
               ELSE self
        result == IF IsSome(target)
                  THEN SR_LoadStore(Unwrap(target), vm1.gpr[source], source)
                  ELSE SR_Continue
        vm2 == IF is_load_op(ins.op)
               THEN [vm1 EXCEPT !.gpr[ins.rD] = set_direct(@, Unknown)]
               ELSE vm1
    IN  [vm |-> vm2, result |-> result]

\* the default arm: every GPR the decoder reports as defined becomes Unknown
step_Default(self, o, ins_addr, ins) ==
    [self EXCEPT !.gpr = [i \in GprIdx |->
        IF i \in ins.defs THEN set_direct(self.gpr[i], Unknown) ELSE self.gpr[i]]]

Continues(v) == [vm |-> v, result |-> SR_Continue]

\* VM::step: the VM after the call and the StepResult it returns
\* a wrong variant of step: the branch arm refines the VM it was called on,
\* not only the copy of the first fork
step_refines_self(self, o, ins_addr, ins) ==
    CASE ins.op = "Illegal" -> [vm |-> self, result |-> SR_Illegal]
      [] ins.op = "Add" -> Continues(step_Add(self, o, ins_addr, ins))
      [] ins.op = "Addis" -> Continues(step_Addis(self, o, ins_addr, ins))
      [] ins.op \in {"Addi", "Addic", "Addic_"} -> Continues(step_Addi(self, o, ins_addr, ins))
      [] ins.op = "Ori" -> Continues(step_Ori(self, o, ins_addr, ins))
      [] ins.op = "Or" -> Continues(step_Or(self, o, ins_addr, ins))
      [] ins.op \in {"Cmp", "Cmpi", "Cmpl", "Cmpli"} ->
            Continues(step_Cmp(self, o, ins_addr, ins))
      [] ins.op \in {"Rlwinm", "Rlwnm"} -> Continues(step_Rlw(self, o, ins_addr, ins))
      [] ins.op \in {"B", "Bc", "Bcctr", "Bclr"} ->
            LET result == step_Branch(self, o, ins_addr, ins)
            IN  [vm |-> IF result.t = "Branch" THEN result.branches[1].vm ELSE self,
                 result |-> result]
      [] ins.op = "Lwzx" -> Continues(step_Lwzx(self, o, ins_addr, ins))
      [] ins.op = "Mtspr" -> Continues(step_Mtspr(self, o, ins_addr, ins))
      [] ins.op = "Mfspr" -> Continues(step_Mfspr(self, o, ins_addr, ins))
      [] ins.op = "Rfi" -> [vm |-> self, result |-> SR_Jump(BT_Unknown)]
      [] is_load_store_op(ins.op) -> step_LoadStore(self, o, ins_addr, ins)
      [] OTHER -> Continues(step_Default(self, o, ins_addr, ins))

step(self, o, ins_addr, ins) ==
    CASE ins.op = "Illegal" -> [vm |-> self, result |-> SR_Illegal]
      [] ins.op = "Add" -> Continues(step_Add(self, o, ins_addr, ins))
      [] ins.op = "Addis" -> Continues(step_Addis(self, o, ins_addr, ins))
      [] ins.op \in {"Addi", "Addic", "Addic_"} -> Continues(step_Addi(self, o, ins_addr, ins))
      [] ins.op = "Ori" -> Continues(step_Ori(self, o, ins_addr, ins))
      [] ins.op = "Or" -> Continues(step_Or(self, o, ins_addr, ins))
      [] ins.op \in {"Cmp", "Cmpi", "Cmpl", "Cmpli"} ->
            Continues(step_Cmp(self, o, ins_addr, ins))
      [] ins.op \in {"Rlwinm", "Rlwnm"} -> Continues(step_Rlw(self, o, ins_addr, ins))
      [] ins.op \in {"B", "Bc", "Bcctr", "Bclr"} ->
            [vm |-> self, result |-> step_Branch(self, o, ins_addr, ins)]
      [] ins.op = "Lwzx" -> Continues(step_Lwzx(self, o, ins_addr, ins))
      [] ins.op = "Mtspr" -> Continues(step_Mtspr(self, o, ins_addr, ins))
      [] ins.op = "Mfspr" -> Continues(step_Mfspr(self, o, ins_addr, ins))
      [] ins.op = "Rfi" -> [vm |-> self, result |-> SR_Jump(BT_Unknown)]
      [] is_load_store_op(ins.op) -> step_LoadStore(self, o, ins_addr, ins)
      [] OTHER -> Continues(step_Default(self, o, ins_addr, ins))

----------------------------------------------------------------------------
(* Hosts and instruction addresses the traces run against                  *)

\* .text 0x80003000..0x80400000 and .data 0x80500000..0x80600000
Sections ==
    [i \in {0, 1} |->
        IF i = 0 THEN [start |-> <<32768, 12288>>, end |-> <<32832, 0>>]
                 ELSE [start |-> <<32848, 0>>, end |-> <<32864, 0>>]]

\* the k-th instruction slot of the traced function, 0x803dfe28 + 4k in .text
IA(k) == SectionAddress(0, <<32829, 65064 + 4 * k>>)

ExeHost ==
    [kind |-> "Executable", sections |-> Sections, relocs |-> {},
     sda2_base |-> None, sda_base |-> None]

RelHost ==
    [kind |-> "Relocatable", sections |-> Sections, relocs |-> {},
     sda2_base |-> None, sda_base |-> None]

NotStepped == [t |-> "NotStepped"]

\* no boxed VM is tracked
NoHeap == [box |-> <<>>, self |-> 0, fork |-> <<>>, ran |-> {}]

NoProg == [guard |-> 0]

NoHistory == [i \in GprIdx |-> None]

NoLeft == [i \in GprIdx |-> {}]

NoCode == <<>>

----------------------------------------------------------------------------
(* Jump-table scenario: lis/addi (table base), rlwinm (index), lwzx,       *)
(* mtspr CTR, bcctr, optionally guarded by cmplwi + bgt, stepped in every  *)
(* order the data dependencies allow.                                      *)

\* <<hi, lo>> immediates of lis/addi: 0x80520e18, 0x8052ef6c (.data), 0x70000010 (nowhere)
JTBases == {<<-32686, 3608>>, <<-32685, -4244>>, <<28672, 16>>}

\* <<SH, MB, ME>> of the rlwinm: masks 28, 124, 0xfffffff8, 0xfffffffc, 3, 0xfffffff7
JTRotates ==
    {<<12, 27, 29>>, <<1, 25, 29>>, <<31, 0, 28>>, <<2, 0, 29>>, <<0, 30, 31>>, <<3, 29, 27>>}

\* the bound c of the guarding cmplwi (0: no guard)
JTGuards == {1, 295, 65535}

\* unguarded sequences: rlwinm rI, rS, SH, MB, ME on any source
JTPlain ==
    {[rX |-> x, rI |-> i, rS |-> s, rT |-> t, hi |-> b[1], lo |-> b[2],
      SH |-> r[1], MB |-> r[2], ME |-> r[3], guard |-> 0] :
        x \in {0, 6}, i \in {0, 5}, s \in {5, 6, 8}, t \in {5, 6, 12},
        b \in JTBases, r \in JTRotates}

\* guarded sequences: cmplwi rI, c; bgt; rlwinm rI, rI, 2, 0, 29
JTGuarded ==
    {[rX |-> x, rI |-> i, rS |-> i, rT |-> t, hi |-> b[1], lo |-> b[2],
      SH |-> 2, MB |-> 0, ME |-> 29, guard |-> c] :
        x \in {3, 6}, i \in {0, 5}, t \in {3, 5, 12}, b \in JTBases, c \in JTGuards}

JTProgs == {p \in JTPlain \cup JTGuarded : p.rX # p.rI}

JTFinal == {"bctr", "bctrl", "bcctr"}

\* the conditional branch was stepped and no fork has been selected yet
JTPending == "bgt" \in done /\ "fork" \notin done

JTExec(tok, ins) ==
    /\ tok \notin done
    /\ done \cap JTFinal = {}
    /\ ~JTPending
    /\ \E r \in {step(vm, obj, IA(steps), ins)} :
        /\ vm' = r.vm
        /\ res' = r.result
    /\ steps' = steps + 1
    /\ done' = done \cup {tok}
    /\ UNCHANGED <<obj, pc, code, producer, leftOf, prog, heap>>

JT_Cmplwi ==
    /\ prog.guard > 0
    /\ JTExec("cmplwi", I_Cmpli(0, 0, prog.rI, prog.guard))

\* bgt 0x800f3518
JT_Bgt ==
    /\ "cmplwi" \in done
    /\ JTExec("bgt", I_Bc(12, 1, <<32783, 13592>>, FALSE))

\* the driver continues on the not-taken fork
JT_Fallthrough ==
    /\ JTPending
    /\ res.t = "Branch"
    /\ vm' = res.branches[1].vm
    /\ done' = done \cup {"fork"}
    /\ UNCHANGED <<obj, res, steps, pc, code, producer, leftOf, prog, heap>>

JT_Lis ==
    /\ prog.rX \in GprIdx
    /\ JTExec("lis", I_Addis(prog.rX, 0, prog.hi))

JT_Addi ==
    /\ "lis" \in done
    /\ JTExec("addi", I_Addi("Addi", prog.rX, prog.rX, prog.lo))

\* unguarded: the source holds neither a Constant nor a Range when it is read
JT_Rlwinm ==
    /\ IF prog.guard > 0 THEN "fork" \in done
       ELSE vm.gpr[prog.rS].value.t \notin {"Constant", "Range"}
    /\ JTExec("rlwinm", I_Rlwinm(prog.rI, prog.rS, prog.SH, prog.MB, prog.ME))

JT_Lwzx ==
    /\ "addi" \in done
    /\ "rlwinm" \in done
    /\ JTExec("lwzx", I_Lwzx(prog.rT, prog.rX, prog.rI))

JT_Mtspr ==
    /\ "lwzx" \in done
    /\ JTExec("mtspr", I_Mtspr(9, prog.rT))

JT_Bctr ==
    /\ "mtspr" \in done
    /\ JTExec("bctr", I_Bcctr(20, 0, FALSE))

JT_Bctrl ==
    /\ "mtspr" \in done
    /\ JTExec("bctrl", I_Bcctr(20, 0, TRUE))

\* a conditional bcctr (beqctr / bnectr on cr0)
JT_Bcctr ==
    /\ "mtspr" \in done
    /\ \E bo \in {12, 4} : JTExec("bcctr", I_Bcctr(bo, 2, FALSE))

InitJT ==
    /\ obj \in {ExeHost, RelHost}
    /\ vm = VM_new
    /\ res = NotStepped
    /\ steps = 0
    /\ pc = 0
    /\ code = NoCode
    /\ producer = NoHistory
    /\ leftOf = NoLeft
    /\ prog \in JTProgs
    /\ done = {}
    /\ heap = NoHeap

NextJT ==
    \/ JT_Cmplwi
    \/ JT_Bgt
    \/ JT_Fallthrough
    \/ JT_Lis
    \/ JT_Addi
    \/ JT_Rlwinm
    \/ JT_Lwzx
    \/ JT_Mtspr
    \/ JT_Bctr
    \/ JT_Bctrl
    \/ JT_Bcctr

SpecJT == InitJT /\ [][NextJT]_vars

----------------------------------------------------------------------------
(* Properties of the jump-table scenario.                                  *)

\* (hi << 16) + lo of the scenario's lis/addi pair
JTBase == wrapping_add(Shl16(SimmU32(prog.hi)), SimmU32(prog.lo))

\* the mask value m of the scenario's rlwinm
JTMask == mask_value(prog.MB, prog.ME)

\* the table address as the host resolves it
JTTable == RT_Address(SectionAddress(Unwrap(at_address(obj, JTBase)), JTBase))

\* the VM still holds what the instruction tok wrote to register r:
\* tok was stepped and the later lwzx has not overwritten r
JTHolds(tok, r) == tok \in done /\ ("lwzx" \in done => prog.rT # r)

\* an unguarded sequence on an executable host, table address in a section,
\* mask a non-zero multiple of 4 below 2^32 - 4
JTPlainCase ==
    /\ prog.guard = 0
    /\ obj.kind = "Executable"
    /\ IsSome(at_address(obj, JTBase))
    /\ JTMask # U32_ZERO
    /\ JTMask[2] % 4 = 0
    /\ Lt32(JTMask, <<65535, 65532>>)

\* what the sequence is said to compute, stage by stage
JTOutcome(m, step_) ==
    /\ (done # {} /\ done \cap JTFinal = {}) => res = SR_Continue
    /\ JTHolds("addi", prog.rX) => vm.gpr[prog.rX].value = Constant(JTBase)
    /\ JTHolds("rlwinm", prog.rI) => vm.gpr[prog.rI].value = Range(U32_ZERO, m, step_)
    /\ "lwzx" \in done => vm.gpr[prog.rT].value = LoadIndexed(JTTable, Some(m))
    /\ "mtspr" \in done => vm.ctr = LoadIndexed(JTTable, Some(m))
    /\ "bctr" \in done
         => res = SR_Jump(BT_JumpTable(JTTable, Some(wrapping_add(m, U32(4)))))

\* C1 as stated: every unguarded sequence, whatever register rX is, recovers
\* the table: all steps before bctr return Continue, rX = Constant((hi<<16)+lo),
\* rI = Range{0, m, 1 rotl SH}, rT and CTR = LoadIndexed{table, m}, and bctr
\* returns Jump(JumpTable{table, m + 4}).
C1_AsStated ==
    JTPlainCase => JTOutcome(JTMask, rotate_left(U32(1), prog.SH))

\* C1: the same recovery for every unguarded sequence whose base register rX
\* is not r0 (with rX = r0 the addi is an li and rX holds Constant(lo) only).
C1_JumpTableRecovery ==
    (JTPlainCase /\ prog.rX # 0) => JTOutcome(JTMask, rotate_left(U32(1), prog.SH))

\* the whole unguarded sequence was stepped with the widest admissible mask
\* 0xfffffff8 and bctr reported a table of size 0xfffffffc
C1_Witness ==
    /\ JTPlainCase
    /\ prog.rX # 0
    /\ JTMask = <<65535, 65528>>
    /\ "bctr" \in done
    /\ res = SR_Jump(BT_JumpTable(JTTable, Some(<<65535, 65532>>)))

\* a guarded sequence on an executable host whose base resolves
JTGuardedCase ==
    /\ prog.guard > 0
    /\ obj.kind = "Executable"
    /\ IsSome(at_address(obj, JTBase))

\* C2: after cmplwi rI,c; bgt; on the not-taken fork rlwinm rI,rI,2,0,29 leaves
\* rI = Range{0, 4c, 4}, and lwzx / mtspr CTR / bctr on a resolvable base built
\* by lis/addi returns Jump(JumpTable{base, 4c + 4}).
C2_GuardedJumpTable ==
    JTGuardedCase =>
        /\ JTHolds("rlwinm", prog.rI)
             => vm.gpr[prog.rI].value = Range(U32_ZERO, U32(4 * prog.guard), U32(4))
        /\ "bctr" \in done
             => res = SR_Jump(BT_JumpTable(JTTable, Some(U32(4 * prog.guard + 4))))

\* the guarded sequence with c = 295 was stepped to its bctr: table of 1184 bytes
C2_Witness ==
    /\ JTGuardedCase
    /\ prog.guard = 295
    /\ "bctr" \in done
    /\ res = SR_Jump(BT_JumpTable(JTTable, Some(U32(1184))))

\* the target a branch step reports: of the jump, or of the taken fork
BranchTargetOf(r) == IF r.t = "Jump" THEN r.target ELSE r.branches[2].target

\* BO fields tried on a reachable VM: every encoding
AllBO == 0..31

\* BI fields tried on a reachable VM: cr0 lt / gt / eq and cr1 gt
SomeBI == {0, 1, 2, 5}

\* C4: whenever CTR = LoadIndexed{addr, max_offset} as recorded by a preceding
\* lwzx, every bcctr with the link bit clear has the branch target
\* JumpTable{address: addr, size: max_offset + 4}.
C4_BcctrJumpTable ==
    vm.ctr.t = "LoadIndexed" =>
        \A bo \in AllBO, bi \in SomeBI :
            LET target == BranchTargetOf(
                    step(vm, obj, IA(steps), I_Bcctr(bo, bi, FALSE)).result)
                max_offset == vm.ctr.max_offset
            IN  /\ target.t = "JumpTable"
                /\ target.address = vm.ctr.address
                /\ IF IsSome(max_offset)
                   THEN /\ ~AddOverflows(Unwrap(max_offset), U32(4))
                        /\ target.size = Some(wrapping_add(Unwrap(max_offset), U32(4)))
                   ELSE target.size = None

\* a conditional bcctr was stepped on the widest recordable max_offset
\* 0xfffffff8 and its taken fork is a table of 0xfffffffc bytes
C4_Witness ==
    /\ obj.kind = "Executable"
    /\ IsSome(at_address(obj, JTBase))
    /\ "bcctr" \in done
    /\ vm.ctr = LoadIndexed(JTTable, Some(<<65535, 65528>>))
    /\ res.t = "Branch"
    /\ res.branches[2].target = BT_JumpTable(JTTable, Some(<<65535, 65532>>))

\* C5: for every VM whose CTR is LoadIndexed, every bcctr with LK = 1 returns
\* Branch with two forks, no JumpTable target in either, the second fork
\* being the call with link = true and target Unknown.
C5_BctrlNeverJumpTable ==
    vm.ctr.t = "LoadIndexed" =>
        \A bo \in AllBO, bi \in SomeBI :
            LET r == step(vm, obj, IA(steps), I_Bcctr(bo, bi, TRUE)).result
            IN  /\ r.t = "Branch"
                /\ Len(r.branches) = 2
                /\ \A k \in 1..2 : r.branches[k].target.t # "JumpTable"
                /\ r.branches[2].link
                /\ r.branches[2].target = BT_Unknown

\* bctrl was stepped with CTR = LoadIndexed{table, 28} and returned a call fork
C5_Witness ==
    /\ obj.kind = "Executable"
    /\ IsSome(at_address(obj, JTBase))
    /\ "bctrl" \in done
    /\ vm.ctr = LoadIndexed(JTTable, Some(U32(28)))
    /\ res.t = "Branch"
    /\ res.branches[2].target = BT_Unknown
    /\ res.branches[2].link

----------------------------------------------------------------------------
(* General traces: any instruction of a small menu at each slot, forks     *)
(* followed as the driver follows them.                                    *)

\* number of step calls on one trace
MaxSteps == 3

\* instruction slots of the traced function
AddrIdx == 0..MaxSteps

\* 0x80520000 + 0x0e18, a word of .data
DataTarget == RT_Address(SectionAddress(1, <<32850, 3608>>))

\* an executable with both SDA bases known: the VM starts seeded
SdaHost ==
    [kind |-> "Executable", sections |-> Sections, relocs |-> {},
     sda2_base |-> Some(<<32850, 0>>), sda_base |-> Some(<<32851, 32768>>)]

\* a relocatable object with relocations on slots 0 and 1 (a hi/lo pair)
RelocHost ==
    [kind |-> "Relocatable", sections |-> Sections,
     relocs |-> {[at |-> IA(0), target |-> DataTarget],
                 [at |-> IA(1), target |-> DataTarget]},
     sda2_base |-> None, sda_base |-> None]

Hosts == {SdaHost, RelocHost}

\* the slot has not been decoded
NoIns == InsBase("none")

\* no instruction decoded at any slot yet
EmptyCode == [k \in AddrIdx |-> NoIns]

\* the GPRs an instruction writes
Writes(ins) ==
    CASE ins.op \in {"Add", "Addis", "Addi", "Addic", "Addic_", "Lwzx", "Mfspr"} -> {ins.rD}
      [] ins.op \in {"Ori", "Or", "Rlwinm", "Rlwnm"} -> {ins.rA}
      [] is_load_store_op(ins.op) ->
            (IF is_load_op(ins.op) THEN {ins.rD} ELSE {})
                \cup (IF is_update_op(ins.op) THEN {ins.rA} ELSE {})
      [] ins.op \in {"B", "Bc", "Bcctr", "Bclr", "Cmp", "Cmpi", "Cmpl", "Cmpli",
                     "Mtspr", "Rfi", "Illegal"} -> {}
      [] OTHER -> ins.defs

\* or rA, rS, rS: the register copy
IsCopy(ins) == ins.op = "Or" /\ ins.rS = ins.rB

\* a compare the VM tracks (L = 0)
IsCompare(ins) == ins.op \in {"Cmp", "Cmpi", "Cmpl", "Cmpli"} /\ ins.L = 0

\* history of the compares: a copy carries the source's fields, any other
\* write drops them, a compare into crfD moves crfD to its left register
leftOfAfter(left, ins) ==
    IF IsCopy(ins) THEN [left EXCEPT ![ins.rA] = left[ins.rS]]
    ELSE IF IsCompare(ins) THEN
        [i \in GprIdx |->
            (left[i] \ {ins.crfD}) \cup (IF i = ins.rA THEN {ins.crfD} ELSE {})]
    ELSE [i \in GprIdx |-> IF i \in Writes(ins) THEN {} ELSE left[i]]

\* history of the writers: a copy carries the source's writer
producerAfter(prod, ins, k) ==
    IF IsCopy(ins) THEN [prod EXCEPT ![ins.rA] = prod[ins.rS]]
    ELSE [i \in GprIdx |-> IF i \in Writes(ins) THEN Some(k) ELSE prod[i]]

\* one step call at the current slot; straight-line results advance the slot
StepAt(ins) ==
    /\ steps < MaxSteps
    /\ pc \in AddrIdx
    /\ code[pc] \in {NoIns, ins}
    /\ \E r \in {step(vm, obj, IA(pc), ins)} :
        /\ vm' = r.vm
        /\ res' = r.result
        /\ pc' = IF r.result.t \in {"Continue", "LoadStore"} THEN pc + 1 ELSE pc
    /\ steps' = steps + 1
    /\ code' = [code EXCEPT ![pc] = ins]
    /\ producer' = producerAfter(producer, ins, pc)
    /\ leftOf' = leftOfAfter(leftOf, ins)
    /\ UNCHANGED <<obj, prog, done, heap>>

\* the destination of b / bc in the menu: slot 0 of the traced function
LoopHead == IA(0).address

\* no result is waiting for the driver to follow it
Ready == res.t \notin {"Branch", "Jump", "Illegal"}

StepAdd ==
    /\ Ready
    /\ \E ins \in {I_Add(3, 3, 14)} : StepAt(ins)

\* lis r3, 0x8052 / lis r13, 0x8052 / addis r3, r3, 0x8052
StepAddis ==
    /\ Ready
    /\ \E ins \in {I_Addis(3, 0, -32686), I_Addis(13, 0, -32686), I_Addis(3, 3, -32686)} :
        StepAt(ins)

\* addi r3, r3, 0xe18 / addi r14, r3, 0xe18 / li r3, 0xe18
StepAddi ==
    /\ Ready
    /\ \E ins \in {I_Addi("Addi", 3, 3, 3608), I_Addi("Addi", 14, 3, 3608),
                   I_Addi("Addi", 3, 0, 3608)} :
        StepAt(ins)

StepOri ==
    /\ Ready
    /\ \E ins \in {I_Ori(14, 3, 3608)} : StepAt(ins)

\* mr r14, r3 / or r3, r3, r14
StepOr ==
    /\ Ready
    /\ \E ins \in {I_Or(14, 3, 3), I_Or(3, 3, 14)} : StepAt(ins)

StepCmp ==
    /\ Ready
    /\ \E ins \in {I_Cmpi(0, 0, 3, 5), I_Cmpli(0, 0, 14, 295), I_Cmpi(1, 0, 3, 5),
                   I_Cmpl(0, 0, 14, 3), I_Cmp(0, 1, 3, 14)} :
        StepAt(ins)

StepRlw ==
    /\ Ready
    /\ \E ins \in {I_Rlwinm(0, 3, 2, 0, 29), I_Rlwnm(14, 3, 3, 27, 29)} : StepAt(ins)

StepLwzx ==
    /\ Ready
    /\ \E ins \in {I_Lwzx(14, 3, 0)} : StepAt(ins)

StepMtspr ==
    /\ Ready
    /\ \E ins \in {I_Mtspr(9, 3)} : StepAt(ins)

StepMfspr ==
    /\ Ready
    /\ \E ins \in {I_Mfspr(3, 9)} : StepAt(ins)

StepLoadStore ==
    /\ Ready
    /\ \E ins \in {I_LoadStore(op, 14, 3, 8) : op \in {"Lwz", "Lwzu", "Stwu"}} :
        StepAt(ins)

StepDefault ==
    /\ Ready
    /\ \E ins \in {I_Other("Mullw", {3})} : StepAt(ins)

StepRfi ==
    /\ Ready
    /\ \E ins \in {InsBase("Rfi")} : StepAt(ins)

StepIllegal ==
    /\ Ready
    /\ \E ins \in {InsBase("Illegal")} : StepAt(ins)

\* b, bl, bla
StepB ==
    /\ Ready
    /\ \E ins \in {I_B(LoopHead, FALSE, FALSE), I_B(LoopHead, TRUE, FALSE),
                   I_B(LoopHead, TRUE, TRUE)} :
        StepAt(ins)

\* bgt, ble, beq cr1, bdnz, an unconditional bc, beql
StepBc ==
    /\ Ready
    /\ \E ins \in {I_Bc(12, 1, LoopHead, FALSE), I_Bc(4, 1, LoopHead, FALSE),
                   I_Bc(12, 6, LoopHead, FALSE), I_Bc(16, 0, LoopHead, FALSE),
                   I_Bc(20, 0, LoopHead, FALSE), I_Bc(12, 2, LoopHead, TRUE)} :
        StepAt(ins)

\* bctr, beqctr, bctrl
StepBcctr ==
    /\ Ready
    /\ \E ins \in {I_Bcctr(20, 2, FALSE), I_Bcctr(12, 2, FALSE), I_Bcctr(20, 2, TRUE)} :
        StepAt(ins)

\* blr, bnelr, blrl
StepBclr ==
    /\ Ready
    /\ \E ins \in {I_Bclr(20, 2, FALSE), I_Bclr(4, 2, FALSE), I_Bclr(20, 2, TRUE)} :
        StepAt(ins)

\* the slot of a branch target inside the traced function; MaxSteps + 1 when
\* the target is unknown or elsewhere
SlotOf(target) ==
    IF target.t = "Address" /\ target.target.t = "Address"
       /\ \E k \in AddrIdx : IA(k) = target.target.sa
    THEN CHOOSE k \in AddrIdx : IA(k) = target.target.sa
    ELSE MaxSteps + 1

\* the GPRs whose contents survive into fork f of a Branch result
Survivors(branches, f) ==
    IF ~branches[2].link THEN GprIdx
    ELSE IF f = 1 THEN {1, 2, 13} \cup 14..31
    ELSE {2, 13}

\* the driver continues on one fork of a Branch result
TakeFork ==
    /\ res.t = "Branch"
    /\ \E f \in 1..2 :
        /\ vm' = res.branches[f].vm
        /\ pc' = SlotOf(res.branches[f].target)
        /\ res' = [t |-> "Forked", link |-> res.branches[f].link]
        /\ producer' = [i \in GprIdx |->
                IF i \in Survivors(res.branches, f) THEN producer[i] ELSE None]
        /\ leftOf' = [i \in GprIdx |->
                IF i \in Survivors(res.branches, f) THEN leftOf[i] ELSE {}]
    /\ UNCHANGED <<obj, steps, code, prog, done, heap>>

\* the driver continues at the target of a Jump result
FollowJump ==
    /\ res.t = "Jump"
    /\ SlotOf(res.target) \in AddrIdx
    /\ pc' = SlotOf(res.target)
    /\ res' = [t |-> "Jumped"]
    /\ UNCHANGED <<obj, vm, steps, code, producer, leftOf, prog, done, heap>>

Init ==
    /\ obj \in Hosts
    /\ vm = new_from_obj(obj)
    /\ res = NotStepped
    /\ steps = 0
    /\ pc = 0
    /\ code = EmptyCode
    /\ producer = NoHistory
    /\ leftOf = NoLeft
    /\ prog = NoProg
    /\ done = {}
    /\ heap = NoHeap

Next ==
    \/ StepAdd
    \/ StepAddis
    \/ StepAddi
    \/ StepOri
    \/ StepOr
    \/ StepCmp
    \/ StepRlw
    \/ StepLwzx
    \/ StepMtspr
    \/ StepMfspr
    \/ StepLoadStore
    \/ StepDefault
    \/ StepRfi
    \/ StepIllegal
    \/ StepB
    \/ StepBc
    \/ StepBcctr
    \/ StepBclr
    \/ TakeFork
    \/ FollowJump

Spec == Init /\ [][Next]_vars

----------------------------------------------------------------------------
(* Properties of the branch arm on general traces.                         *)

\* the instruction of the last step call, NoIns right after a fork or jump
\* was followed (a step that continues has advanced the slot by one)
LastIns ==
    IF res.t \in {"Continue", "LoadStore"} THEN code[pc - 1]
    ELSE IF res.t \in {"Branch", "Jump", "Illegal"} THEN code[pc]
    ELSE NoIns

\* the address of the last step call
LastAddr == IF res.t \in {"Continue", "LoadStore"} THEN IA(pc - 1) ELSE IA(pc)

\* a bc / bcctr / bclr with the link bit clear and BO & 0b10100 # 0b10100
IsCondBranch(ins) ==
    /\ ins.op \in {"Bc", "Bcctr", "Bclr"}
    /\ ~ins.LK
    /\ And16(ins.BO, 20, 5) # 20

\* v with value written over the value of every GPR tagged ComparisonResult(crf)
Refined(v, value, crf) ==
    [v EXCEPT !.gpr = [i \in GprIdx |->
        IF v.gpr[i].value = ComparisonResult(crf)
        THEN Gpr(value, v.gpr[i].hi_addr, v.gpr[i].lo_addr)
        ELSE v.gpr[i]]]

\* order, targets, link flags and refinement polarity of the two forks
ForkLaw(v, a, ins, r) ==
    LET crf == ins.BI \div 4
        pair == split_values_by_crb(ins.BI % 4, v.cr[crf].left, v.cr[crf].right)
        f_val == pair[1]
        t_val == pair[2]
    IN  /\ r.t = "Branch"
        /\ Len(r.branches) = 2
        /\ r.branches[1].target = BT_Address(RT_Address(SA_add(a, U32(4))))
        /\ ~r.branches[1].link
        /\ r.branches[2].target = branch_target(v, obj, a, ins)
        /\ ~r.branches[2].link
        /\ IF And16(ins.BO, 30, 5) = 12 THEN
                /\ r.branches[1].vm = Refined(v, f_val, crf)
                /\ r.branches[2].vm = Refined(v, t_val, crf)
           ELSE IF And16(ins.BO, 30, 5) = 4 THEN
                /\ r.branches[1].vm = Refined(v, t_val, crf)
                /\ r.branches[2].vm = Refined(v, f_val, crf)
           ELSE /\ r.branches[1].vm = v
                /\ r.branches[2].vm = v

\* bounds c of the cmplwi r0, c tried on a reachable VM
CmplwiBounds == {1, 295, 65535}

\* cmplwi r0, c then bgt: r0 = Range{0, c, 1} not taken, Range{c+1, 2^32-1, 1} taken
CmplwiBgtLaw(v, a, c) ==
    LET compared == step(v, obj, a, I_Cmpli(0, 0, 0, c)).vm
        r == step(compared, obj, SA_add(a, U32(4)), I_Bc(12, 1, LoopHead, FALSE)).result
    IN  /\ r.branches[1].vm.gpr[0].value = Range(U32_ZERO, U32(c), U32(1))
        /\ r.branches[2].vm.gpr[0].value = Range(U32(c + 1), U32_MAX, U32(1))

\* C3 as stated: every conditional bc / bcctr / bclr with LK clear returns the
\* two forks [not taken: Address(ins_addr + 4)], [taken: computed target], both
\* link = false, refined by polarity (branch-if-true: f_val not taken, t_val
\* taken; branch-if-false: the opposite; other BO: both forks the pre-step VM);
\* and cmplwi r0,c then bgt gives r0 = Range{0,c,1} / Range{c+1,2^32-1,1}
\* whatever r0 held.
C3_AsStated ==
    /\ IsCondBranch(LastIns) => ForkLaw(vm, LastAddr, LastIns, res)
    /\ \A c \in CmplwiBounds : CmplwiBgtLaw(vm, IA(pc), c)

\* C3: the same fork order and refinement polarity; cmplwi r0,c then bgt gives
\* r0 = Range{0,c,1} / Range{c+1,2^32-1,1} when r0 did not hold a Range before
\* the compare (a Range is clamped against c and keeps its own step).
C3_ForkPolarity ==
    /\ IsCondBranch(LastIns) => ForkLaw(vm, LastAddr, LastIns, res)
    /\ vm.gpr[0].value.t # "Range" => \A c \in CmplwiBounds : CmplwiBgtLaw(vm, IA(pc), c)

\* a branch-if-false bc was stepped on a tracked compare: the tagged register
\* holds different ranges in the two forks
C3_Witness ==
    /\ IsCondBranch(LastIns)
    /\ LastIns.op = "Bc"
    /\ And16(LastIns.BO, 30, 5) = 4
    /\ res.t = "Branch"
    /\ \E i \in GprIdx :
        /\ vm.gpr[i].value.t = "ComparisonResult"
        /\ res.branches[1].vm.gpr[i].value.t = "Range"
        /\ res.branches[2].vm.gpr[i].value.t = "Range"
        /\ res.branches[1].vm.gpr[i] # res.branches[2].vm.gpr[i]

\* a b / bc / bcctr / bclr with the link bit set, other than bla
IsCall(ins) ==
    /\ ins.op \in {"B", "Bc", "Bcctr", "Bclr"}
    /\ ins.LK
    /\ ~(ins.op = "B" /\ ins.AA)

\* C6: every bl target, and every bc / bcctr / bclr with the link bit set,
\* returns Branch with exactly two forks: first the fallthrough with target
\* Address(ins_addr + 4), link = false and VM = clone_for_return(pre); second
\* the call with the computed target, link = true and VM = clone_for_link(pre).
C6_CallFork ==
    IsCall(LastIns) =>
        res = SR_Branch(
            <<Branch(BT_Address(RT_Address(SA_add(LastAddr, U32(4)))), FALSE,
                     clone_for_return(vm)),
              Branch(branch_target(vm, obj, LastAddr, LastIns), TRUE,
                     clone_for_link(vm))>>)

\* bl was stepped on a VM that neither clone reproduces: the three VMs differ
C6_Witness ==
    /\ IsCall(LastIns)
    /\ LastIns.op = "B"
    /\ res.t = "Branch"
    /\ res.branches[1].vm # vm
    /\ res.branches[2].vm # vm
    /\ res.branches[1].vm # res.branches[2].vm
    /\ res.branches[2].target.t = "Address"

\* CR and CTR of a fresh VM
FreshRest(c) == c.cr = [k \in CrIdx |-> CrDefault] /\ c.ctr = Unknown

\* C7 as stated: clone_for_return(v) holds full copies (value, hi_addr,
\* lo_addr) of r1, r2, r13 and of r14..r31, every other GPR Unknown with
\* cleared audit addresses, default CR fields and CTR Unknown.
C7_AsStated ==
    LET c == clone_for_return(vm)
    IN  /\ \A i \in {1, 2, 13} \cup 14..31 : c.gpr[i] = vm.gpr[i]
        /\ \A i \in GprIdx \ ({1, 2, 13} \cup 14..31) : c.gpr[i] = GprDefault
        /\ FreshRest(c)

\* C7: clone_for_return(v) holds the values of r1, r2, r13 with their audit
\* addresses cleared, full copies (value, hi_addr, lo_addr) of r14..r31, every
\* other GPR Unknown with cleared audit addresses, default CR fields and CTR
\* Unknown.
C7_CloneForReturn ==
    LET c == clone_for_return(vm)
    IN  /\ \A i \in {1, 2, 13} : c.gpr[i] = Gpr(vm.gpr[i].value, None, None)
        /\ \A i \in 14..31 : c.gpr[i] = vm.gpr[i]
        /\ \A i \in GprIdx \ ({1, 2, 13} \cup 14..31) : c.gpr[i] = GprDefault
        /\ FreshRest(c)

\* a call was stepped with audit addresses on r13 and r14: the fallthrough
\* fork has r13's value without them and r14 with them
C7_Witness ==
    /\ IsCall(LastIns)
    /\ res.t = "Branch"
    /\ res.branches[1].vm = clone_for_return(vm)
    /\ IsSome(vm.gpr[13].hi_addr)
    /\ IsSome(vm.gpr[14].lo_addr)
    /\ res.branches[1].vm.gpr[13] = Gpr(vm.gpr[13].value, None, None)
    /\ res.branches[1].vm.gpr[14] = vm.gpr[14]

\* C8: clone_for_link(v) is a fresh VM except that r2.value and r13.value are
\* v's; the audit addresses of r2 and r13 are cleared, every other GPR is
\* Unknown, all CR fields are default and CTR is Unknown.
C8_CloneForLink ==
    LET c == clone_for_link(vm)
    IN  /\ \A i \in {2, 13} : c.gpr[i] = Gpr(vm.gpr[i].value, None, None)
        /\ \A i \in GprIdx \ {2, 13} : c.gpr[i] = GprDefault
        /\ FreshRest(c)

\* a call was stepped with an audit address on r13 and a tracked compare: the
\* call fork has r13's value only and default CR fields
C8_Witness ==
    /\ IsCall(LastIns)
    /\ res.t = "Branch"
    /\ res.branches[2].vm = clone_for_link(vm)
    /\ IsSome(vm.gpr[13].hi_addr)
    /\ vm.gpr[13].value # Unknown
    /\ vm.cr # [k \in CrIdx |-> CrDefault]
    /\ res.branches[2].vm.gpr[13] = Gpr(vm.gpr[13].value, None, None)

----------------------------------------------------------------------------
(* Properties that need the history of the trace.                          *)

\* the GPRs into which fork f of the last (conditional) branch installed a value
Installed(f) ==
    {i \in GprIdx :
        /\ vm.gpr[i].value = ComparisonResult(LastIns.BI \div 4)
        /\ res.branches[f].vm.gpr[i] # vm.gpr[i]}

\* C9: when a conditional branch on CR field k is stepped, the refined value
\* is installed only in GPRs that still hold the left operand of the most
\* recent compare into field k; a GPR tagged by an earlier, superseded compare
\* into field k does not receive the newer compare's range.
C9_RefinesOnlyLeftOperand ==
    (IsCondBranch(LastIns) /\ res.t = "Branch") =>
        \A f \in 1..2 : \A i \in Installed(f) : (LastIns.BI \div 4) \in leftOf[i]

\* the slot whose address is sa
SlotAt(sa) == CHOOSE k \in AddrIdx : IA(k) = sa

\* the entry is an Address with both audit addresses set
AuditSet(g) == g.value.t = "Address" /\ IsSome(g.hi_addr) /\ IsSome(g.lo_addr)

\* instructions that write through set_hi
IsHiIns(ins) == ins.op = "Addis"

\* instructions that write through set_lo: addi / addic / addic. / ori and the
\* update-form loads and stores
IsLoIns(ins) ==
    \/ ins.op \in {"Addi", "Addic", "Addic_", "Ori"}
    \/ is_load_store_op(ins.op) /\ is_update_op(ins.op)

----------------------------------------------------------------------------
(* Laws of a single step call, stated on every VM the traces reach.        *)

\* v with the value of GPR r forgotten (its audit addresses stay)
ForgetValue(v, r) == [v EXCEPT !.gpr[r].value = Unknown]

\* the VMs a step call leaves behind: the mutated VM, then the fork VMs
ResultVMs(r) ==
    IF r.result.t = "Branch"
    THEN <<r.vm, r.result.branches[1].vm, r.result.branches[2].vm>>
    ELSE <<r.vm>>

\* less and full are the VMs left by stepping the less informed VM and the
\* original one: no GPR is known in less and Unknown in full
NoMorePrecise(less, full) ==
    /\ Len(less) = Len(full)
    /\ \A k \in 1..Len(full) : \A i \in GprIdx :
         ~(less[k].gpr[i].value # Unknown /\ full[k].gpr[i].value = Unknown)

\* the registers whose value is forgotten
ForgetRegs == {3, 14}

\* instructions that read r3 or r14: one per arm of step
ForgetIns ==
    {I_Add(0, 3, 14), I_Addis(0, 3, 16), I_Addi("Addi", 0, 3, 8), I_Ori(0, 3, 8),
     I_Or(0, 3, 3), I_Or(0, 3, 14), I_Cmpi(0, 0, 3, 5),
     I_Rlwinm(0, 3, 2, 0, 29), I_Rlwnm(0, 3, 14, 27, 29), I_Lwzx(0, 3, 14),
     I_Mtspr(9, 3), I_LoadStore("Lwzu", 0, 3, 8), I_LoadStore("Stwu", 0, 14, 8),
     I_Bc(12, 1, LoopHead, FALSE), I_Bc(4, 2, LoopHead, FALSE),
     I_B(LoopHead, TRUE, FALSE), I_Other("Mullw", {0})}

\* C11: replacing the value of a GPR by Unknown before step never makes a GPR
\* of the result (the mutated VM or a fork VM of a Branch) known where the
\* original input leaves it Unknown.
C11_UnknownMonotone ==
    Ready =>
        \A ins \in ForgetIns :
            \A full \in {ResultVMs(step(vm, obj, IA(pc), ins))} :
                \A r \in ForgetRegs :
                    \A less \in {ResultVMs(step(ForgetValue(vm, r), obj, IA(pc), ins))} :
                        NoMorePrecise(less, full)

\* r3 and r14 are both constants: add r0,r3,r14 is a constant, and Unknown
\* once r3 is forgotten
C11_Witness ==
    /\ Ready
    /\ vm.gpr[3].value.t = "Constant"
    /\ vm.gpr[14].value.t = "Constant"
    /\ step(vm, obj, IA(pc), I_Add(0, 3, 14)).vm.gpr[0].value.t = "Constant"
    /\ step(ForgetValue(vm, 3), obj, IA(pc), I_Add(0, 3, 14)).vm.gpr[0].value = Unknown

\* the registers the single-step laws are tried on: r0, a scratch register,
\* the SDA base and a callee-saved register
LawRegs == {0, 3, 13, 14}

\* C12: after or rA, rS, rS the destination gpr[rA] equals the pre-step
\* gpr[rS] in value, hi_addr and lo_addr, no other GPR, CR field or CTR
\* changes, and the result is Continue.
C12_RegisterCopy ==
    \A rA \in LawRegs, rS \in LawRegs :
        \A r \in {step(vm, obj, IA(pc), I_Or(rA, rS, rS))} :
            /\ r.result = SR_Continue
            /\ r.vm = [vm EXCEPT !.gpr[rA] = vm.gpr[rS]]

\* mr r14, r3 was stepped on an r3 that carries an audit address: r14 has it too
C12_Witness ==
    /\ IsCopy(LastIns)
    /\ LastIns.rA # LastIns.rS
    /\ res = SR_Continue
    /\ IsSome(vm.gpr[LastIns.rS].hi_addr)
    /\ vm.gpr[LastIns.rA] = vm.gpr[LastIns.rS]

----------------------------------------------------------------------------
(* mask_value over every MB, ME the decoder can produce, applied by the     *)
(* rlwinm arm: rlwinm r0, r3, 0, MB, ME on a fresh VM leaves the mask as    *)
(* the max of r0's Range.                                                  *)

\* the values of a 5-bit MB or ME field
MaskFields == 0..31

MaskRlwinm ==
    /\ res = NotStepped
    /\ \E r \in {step(vm, obj, IA(0), I_Rlwinm(0, 3, 0, prog.MB, prog.ME))} :
        /\ vm' = r.vm
        /\ res' = r.result
    /\ steps' = steps + 1
    /\ UNCHANGED <<obj, pc, code, producer, leftOf, prog, done, heap>>

InitMask ==
    /\ obj = ExeHost
    /\ vm = VM_new
    /\ res = NotStepped
    /\ steps = 0
    /\ pc = 0
    /\ code = NoCode
    /\ producer = NoHistory
    /\ leftOf = NoLeft
    /\ prog \in {[MB |-> b, ME |-> e] : b \in MaskFields, e \in MaskFields}
    /\ done = {}
    /\ heap = NoHeap

NextMask == MaskRlwinm

SpecMask == InitMask /\ [][NextMask]_vars

\* bit i of x, numbered from the most significant bit (bit 0 = MSB)
BitSet(x, i) ==
    IF i < 16 THEN (x[1] \div Pow2(15 - i)) % 2 = 1
    ELSE (x[2] \div Pow2(31 - i)) % 2 = 1

\* i lies in the wrap-inclusive interval from MB to ME
InWrapInterval(i, MB, ME) ==
    IF MB <= ME THEN MB <= i /\ i <= ME
    ELSE IF MB = ME + 1 THEN TRUE
    ELSE ~(ME + 1 <= i /\ i <= MB - 1)

\* C13: for all MB, ME of a 5-bit field, mask_value(MB, ME) has bit i (bit 0 =
\* MSB) set exactly when i lies in the wrap-inclusive interval from MB to ME,
\* so its popcount is the number of bits of that interval.
C13_MaskLaw ==
    res = SR_Continue =>
        LET mask == vm.gpr[0].value.max
        IN  /\ vm.gpr[0].value = Range(U32_ZERO, mask_value(prog.MB, prog.ME), U32(1))
            /\ \A i \in 0..31 : BitSet(mask, i) <=> InWrapInterval(i, prog.MB, prog.ME)
            /\ Cardinality({i \in 0..31 : BitSet(mask, i)})
                 = Cardinality({i \in 0..31 : InWrapInterval(i, prog.MB, prog.ME)})

\* rlwinm r0, r3, 0, 30, 1 was stepped: the wrap-around mask 0xc0000003
C13_Witness ==
    /\ res = SR_Continue
    /\ prog.MB = 30
    /\ prog.ME = 1
    /\ vm.gpr[0].value.max = <<49152, 3>>

----------------------------------------------------------------------------
(* Laws of the lwzx and load/store arms.                                   *)

\* the not-taken fork of cmplwi r0, c; bgt stepped from v: r0 is bounded by c
GuardedR0(v, c) ==
    step(step(v, obj, IA(pc), I_Cmpli(0, 0, 0, c)).vm, obj, IA(pc + 1),
         I_Bc(12, 1, LoopHead, FALSE)).result.branches[1].vm

\* bounds of the guarding cmplwi: a single-entry table and a two-entry table
LwzxGuards == {0, 4}

\* the VMs lwzx is tried on: the reached VM and its guarded forks
LwzxVMs == {vm} \cup {GuardedR0(vm, c) : c \in LwzxGuards}

\* max is 4-aligned and below 2^32 - 4
TableExtent(max) == max[2] % 4 = 0 /\ Lt32(max, <<Half - 1, Half - 4>>)

\* what lwzx rD, rA, rB is said to leave in rD.value
LwzxStated(v, a, rA, rB) ==
    LET left == Gpr_address(v.gpr[rA], obj, a)
        right == v.gpr[rB].value
    IN  IF ~IsSome(left) THEN Unknown
        ELSE IF right.t = "Range" /\ TableExtent(right.max)
            THEN LoadIndexed(Unwrap(left), Some(right.max))
        ELSE LoadIndexed(Unwrap(left), None)

\* C14: lwzx rD, rA, rB leaves rD = LoadIndexed{address, max_offset = max} when
\* rA yields an address and rB is a Range whose max is 4-aligned and below
\* 2^32 - 4 (max = 0 included, distinct from max_offset = None),
\* LoadIndexed{address, None} when rA yields an address and rB is anything
\* else, Unknown when rA yields no address; rD's audit addresses are cleared.
C14_LwzxTransfer ==
    Ready =>
        \A v \in LwzxVMs : \A rA \in {3, 13}, rB \in {0, 14} :
            \A r \in {step(v, obj, IA(pc), I_Lwzx(14, rA, rB))} :
                /\ r.result = SR_Continue
                /\ r.vm = [v EXCEPT !.gpr[14] =
                            Gpr(LwzxStated(v, IA(pc), rA, rB), None, None)]

\* on the seeded VM, after cmplwi r0, 0 and bgt, lwzx r14, r13, r0 reads a
\* one-entry table at the SDA base and records no extent
C14_Witness ==
    /\ Ready
    /\ IsSome(Gpr_address(vm.gpr[13], obj, IA(pc)))
    /\ GuardedR0(vm, 0).gpr[0].value = Range(U32_ZERO, U32_ZERO, U32(1))
    /\ step(GuardedR0(vm, 0), obj, IA(pc), I_Lwzx(14, 13, 0)).vm.gpr[14].value
         = LoadIndexed(Unwrap(Gpr_address(vm.gpr[13], obj, IA(pc))), None)

\* <<rA, rD>> pairs of the load/store law: distinct registers, rD = rA, and
\* the seeded SDA base as rA
LoadStorePairs == {<<3, 14>>, <<3, 3>>, <<13, 14>>}

\* the effective address the load/store arm resolves, if any
EffectiveAddress(v, a, rA, simm) ==
    LET base == v.gpr[rA].value
    IN  IF base.t = "Address" THEN Some(base.target)
        ELSE IF base.t = "Constant"
            THEN section_address_for(obj, a, wrapping_add(base.v, SimmU32(simm)))
        ELSE None

\* the load/store law for one instruction op rD, simm(rA) stepped on v
LoadStoreLaw(v, a, op, rA, rD, r) ==
    LET ea == EffectiveAddress(v, a, rA, 8)
        touched == (IF is_update_op(op) THEN {rA} ELSE {})
                       \cup (IF is_load_op(op) THEN {rD} ELSE {})
    IN  /\ IF IsSome(ea)
           THEN /\ r.result.t = "LoadStore"
                /\ r.result.address = Unwrap(ea)
                /\ r.result.source_reg = rA
                /\ r.result.source =
                     IF is_update_op(op)
                     THEN set_lo(v.gpr[rA], Address(Unwrap(ea)), a, v.gpr[rA])
                     ELSE v.gpr[rA]
                /\ (~(is_load_op(op) /\ rD = rA)) => r.vm.gpr[rA] = r.result.source
           ELSE r.result = SR_Continue
        /\ is_load_op(op) => r.vm.gpr[rD] = GprDefault
        /\ \A i \in GprIdx \ touched : r.vm.gpr[i] = v.gpr[i]
        /\ r.vm.cr = v.cr
        /\ r.vm.ctr = v.ctr

\* C15: for every opcode of the integer-load, float-load, integer-store and
\* float-store lists, step returns LoadStore{address, source, source_reg = rA}
\* exactly when an effective address is resolved (rA is Address(t), or
\* Constant(base) with base + simm resolving through section_address_for) and
\* Continue otherwise; source is rA's entry after the update-form write-back
\* and before the rD clobber; integer loads set rD to Unknown with cleared
\* audits; float loads and stores change no GPR other than rA on update forms.
C15_LoadStoreReporting ==
    Ready =>
        \A op \in LoadOps \cup LoadfOps \cup StoreOps \cup StorefOps :
            \A p \in LoadStorePairs :
                \A r \in {step(vm, obj, IA(pc), I_LoadStore(op, p[2], p[1], 8))} :
                    LoadStoreLaw(vm, IA(pc), op, p[1], p[2], r)

\* lwzu r14, 8(r3) was stepped on a constant base that resolves: the reported
\* source is r3 written back as an Address with lo_addr set, r14 is clobbered
C15_Witness ==
    /\ LastIns.op = "Lwzu"
    /\ res.t = "LoadStore"
    /\ res.source_reg = 3
    /\ res.source = vm.gpr[3]
    /\ res.source.value = Address(res.address)
    /\ res.source.lo_addr = Some(LastAddr)
    /\ vm.gpr[14] = GprDefault

----------------------------------------------------------------------------
(* High/low pairing: lis at A, a completing instruction at B, a chained     *)
(* one at C, stepped from every VM the traces reach.                       *)

\* <<A, B, C>>: on the host with relocations, slots 0 and 1 carry one, so the
\* triples have a relocation on lis and the completing instruction, on the
\* chained instruction only, and on the completing instruction only
PairSlots == {<<IA(0), IA(1), IA(2)>>, <<IA(2), IA(3), IA(1)>>, <<IA(2), IA(1), IA(3)>>}

\* the register an instruction of the pairing writes
DestOf(ins) == IF ins.op = "Ori" THEN ins.rA ELSE ins.rD

\* <<rD of lis, completing instruction, chained instruction>>, rA # 0 for addi
PairSeqs ==
    {<<3, I_Addi("Addi", 3, 3, 3608), I_Addi("Addi", 3, 3, 8)>>,
     <<3, I_Addi("Addi", 14, 3, 3608), I_Ori(14, 14, 8)>>,
     <<3, I_Ori(14, 3, 3608), I_Addi("Addi", 3, 14, 8)>>,
     <<3, I_Addi("Addic", 14, 3, 3608), I_Addi("Addic", 14, 14, 8)>>,
     <<0, I_Ori(14, 0, 3608), I_Ori(0, 14, 8)>>,
     <<0, I_Addi("Addic", 14, 0, 3608), I_Ori(14, 14, 8)>>}

\* the audit addresses of g are hi and lo
Audits(g, hi, lo) == g.hi_addr = hi /\ g.lo_addr = lo

\* the pairing along one sequence q stepped at the slots t from v
PairingLaw(v, t, q) ==
    \A s1 \in {step(v, obj, t[1], I_Addis(q[1], 0, -32686)).vm} :
    \A s2 \in {step(s1, obj, t[2], q[2]).vm} :
    \A s3 \in {step(s2, obj, t[3], q[3]).vm} :
        /\ Audits(s1.gpr[q[1]], Some(t[1]), None)
        /\ Audits(s2.gpr[DestOf(q[2])], Some(t[1]), Some(t[2]))
        /\ Audits(s3.gpr[DestOf(q[3])], Some(t[1]), Some(t[2]))

\* the completing instruction q[2] at slot b sets its destination directly:
\* an addi / addic / addic. with rA = 0 and no relocation attached
SetsDirectly(b, ins) ==
    /\ ins.op \in {"Addi", "Addic", "Addic_"}
    /\ ins.rA = 0
    /\ ~IsSome(relocation_target_for(obj, b))

----------------------------------------------------------------------------
(* Audit addresses of directly produced values.                            *)

\* the transfers that produce the value of d directly whatever the VM holds
DirectIns(d) ==
    {I_Add(d, 3, 14), I_Or(d, 3, 14), I_Rlwinm(d, 3, 2, 0, 29), I_Rlwnm(d, 3, 14, 27, 29),
     I_Lwzx(d, 3, 0), I_Mfspr(d, 9), I_Mfspr(d, 8), I_Other("Mullw", {d}),
     I_LoadStore("Lwz", d, 3, 8), I_LoadStore("Lbzu", d, 3, 8), I_LoadStore("Lmw", d, 3, 8)}

\* addis with rA # 0 and addi with rA = 0: direct when no relocation is attached
DirectUnlessRelocated(d) == {I_Addis(d, 3, 16), I_Addi("Addi", d, 0, 8)}

\* update-form accesses with base d: the write-back is direct when the base
\* is neither an Address nor a Constant
DirectWriteBack(d) ==
    {I_LoadStore(op, 0, d, 8) : op \in {"Lwzu", "Stwu", "Lfsu", "Stfdu"}}

\* the transfers that produce the value of d directly on v at address a
DirectOn(v, a, d) ==
    DirectIns(d)
        \cup (IF IsSome(relocation_target_for(obj, a)) THEN {} ELSE DirectUnlessRelocated(d))
        \cup (IF v.gpr[d].value.t \in {"Address", "Constant"} THEN {} ELSE DirectWriteBack(d))

\* C17: after step, the destination of every transfer that produces its value
\* directly (add, or with rS # rB, rlwinm / rlwnm, addis with rA # 0 and no
\* relocation, addi with rA = 0 and no relocation, lwzx, mfspr, the rD clobber
\* of an integer load, the rA write-back of an update-form access whose base
\* is neither Address nor Constant, the default write-back) has hi_addr and
\* lo_addr cleared, whatever they were before.
C17_DirectClearsAudits ==
    Ready =>
        \A d \in {3, 14} : \A ins \in DirectOn(vm, IA(pc), d) :
            Audits(step(vm, obj, IA(pc), ins).vm.gpr[d], None, None)

\* r3 carries both audit addresses and add r3, r3, r14 clears them
C17_Witness ==
    /\ Ready
    /\ IsSome(vm.gpr[3].hi_addr)
    /\ IsSome(vm.gpr[3].lo_addr)
    /\ Audits(step(vm, obj, IA(pc), I_Add(3, 3, 14)).vm.gpr[3], None, None)

----------------------------------------------------------------------------
(* Compare transfer.                                                       *)

CmpFields == {0, 7}
CmpImms == {5, -1}

\* the compares stepped by the law: both register forms, both immediate
\* forms, rA = rB included, L = 0 and L = 1
CmpIns ==
    {I_Cmp(f, l, a, b) : f \in CmpFields, l \in {0, 1}, a \in {0, 3}, b \in {3, 14}}
        \cup {I_Cmpl(f, l, a, b) : f \in CmpFields, l \in {0, 1}, a \in {0, 3}, b \in {3, 14}}
        \cup {I_Cmpi(f, l, a, s) : f \in CmpFields, l \in {0, 1}, a \in {0, 3}, s \in CmpImms}
        \cup {I_Cmpli(f, l, a, 5) : f \in CmpFields, l \in {0, 1}, a \in {0, 3}}

\* the right operand of the populated CR field, read on the VM before the step
RightOperand(v, ins) ==
    CASE ins.op \in {"Cmp", "Cmpl"} -> v.gpr[ins.rB].value
      [] ins.op = "Cmpi" -> Constant(IF ins.simm < 0 THEN <<Half - 1, Half + ins.simm>> ELSE <<0, ins.simm>>)
      [] ins.op = "Cmpli" -> Constant(<<0, ins.uimm>>)

CompareLaw(v, ins, r) ==
    /\ r.result = SR_Continue
    /\ IF ins.L = 0
       THEN /\ r.vm.cr[ins.crfD].left = v.gpr[ins.rA].value
            /\ r.vm.cr[ins.crfD].right = RightOperand(v, ins)
            /\ r.vm.cr[ins.crfD].signed = (ins.op \in {"Cmp", "Cmpi"})
            /\ r.vm.gpr[ins.rA].value = ComparisonResult(ins.crfD)
            /\ r.vm.gpr[ins.rA].hi_addr = v.gpr[ins.rA].hi_addr
            /\ r.vm.gpr[ins.rA].lo_addr = v.gpr[ins.rA].lo_addr
            /\ \A i \in GprIdx \ {ins.rA} : r.vm.gpr[i] = v.gpr[i]
            /\ \A c \in CrIdx \ {ins.crfD} : r.vm.cr[c] = v.cr[c]
            /\ r.vm.ctr = v.ctr
       ELSE r.vm = v

\* C18: for cmp / cmpi / cmpl / cmpli with L = 0, step sets cr[crfD] to
\* (left = rA's pre-step value, right = rB's pre-step value for cmp / cmpl,
\* Constant(simm as u32) for cmpi, Constant(uimm) for cmpli, signed = true for
\* cmp / cmpi and false for cmpl / cmpli), sets rA's value to
\* ComparisonResult(crfD), changes no other GPR, CR field or CTR, and returns
\* Continue; with L # 0 the whole VM is left unchanged and the result is
\* Continue.
C18_CompareTransfer ==
    Ready =>
        \A ins \in CmpIns :
            \A r \in {step(vm, obj, IA(pc), ins)} : CompareLaw(vm, ins, r)

\* r3 holds a known value and cmpw cr7, r3, r3 records it on both sides
C18_Witness ==
    /\ Ready
    /\ vm.gpr[3].value.t \in {"Constant", "Address"}
    /\ \E r \in {step(vm, obj, IA(pc), I_Cmp(7, 0, 3, 3))} :
          /\ r.vm.cr[7] = Cr(vm.gpr[3].value, vm.gpr[3].value, TRUE)
          /\ r.vm.gpr[3].value = ComparisonResult(7)

----------------------------------------------------------------------------
(* The places where step can abort: the debug assertion of the addis arm,  *)
(* the unreachable!() arms, the indexing of gpr (32 entries) and cr (8     *)
(* entries), the unwrap of branch_dest, and the u32 arithmetic and shifts  *)
(* of mask_value.  The wrapping_* operations, rotate_left, checked_add,    *)
(* the casts and the shift of simm by 16 cannot abort.                     *)
(* The host's SectionAddress + u32 and offset are total, as SA_add and     *)
(* SA_offset model them.                                                   *)

\* a wrong variant of mask_shift: bits counted from 32
mask_shift_from_32(bit) == 32 - bit

\* the shift amount of 1 << (31 - bit), computed in u32
mask_shift(bit) == 31 - bit

\* mask_value(begin, end) aborts when end + 1 leaves u32, when 31 - bit goes
\* below 0 or when the shift amount is 32 or more
mask_value_aborts(begin, end) ==
    IF begin <= end
        THEN \E bit \in begin..end : mask_shift(bit) \notin 0..31
    ELSE \/ (end + 1) \div Half >= Half
         \/ /\ begin # end + 1
            /\ \E bit \in (end + 1)..(begin - 1) : mask_shift(bit) \notin 0..31

\* Ins::branch_dest(): the decoder gives b and bc a destination
branch_dest(ins) == IF ins.op \in {"B", "Bc"} THEN Some(ins.dest) ELSE None

Site(name, hit) == IF hit THEN {name} ELSE {}

GprSite(regs) == Site("gpr index", \E i \in regs : i \notin GprIdx)

\* the abort sites step(self, o, ins_addr, ins) runs into, arm by arm
AbortSites(self, o, ins_addr, ins) ==
    CASE ins.op = "Illegal" -> {}
      [] ins.op = "Add" -> GprSite({ins.rA, ins.rB, ins.rD})
      [] ins.op = "Addis" ->
            IF IsSome(relocation_target_for(o, ins_addr))
                THEN Site("debug_assert_eq", ins.rA # 0) \cup GprSite({ins.rD})
            ELSE GprSite({ins.rA, ins.rD})
      [] ins.op \in {"Addi", "Addic", "Addic_"} -> GprSite({ins.rA, ins.rD})
      [] ins.op = "Ori" -> GprSite({ins.rA, ins.rS})
      [] ins.op = "Or" -> GprSite({ins.rA, ins.rS, ins.rB})
      [] ins.op \in {"Cmp", "Cmpi", "Cmpl", "Cmpli"} ->
            IF ins.L = 0
                THEN GprSite({ins.rA} \cup (IF ins.op \in {"Cmp", "Cmpl"} THEN {ins.rB} ELSE {}))
                        \cup Site("unreachable", ins.op \notin {"Cmp", "Cmpl", "Cmpi", "Cmpli"})
                        \cup Site("cr index", ins.crfD \notin CrIdx)
            ELSE {}
      [] ins.op \in {"Rlwinm", "Rlwnm"} ->
            GprSite({ins.rA, ins.rS} \cup (IF ins.op = "Rlwnm" THEN {ins.rB} ELSE {}))
                \cup Site("unreachable", ins.op \notin {"Rlwinm", "Rlwnm"})
                \cup Site("mask_value",
                          /\ ins.op = "Rlwnm" => self.gpr[ins.rB].value.t = "Constant"
                          /\ mask_value_aborts(ins.MB, ins.ME))
      [] ins.op \in {"B", "Bc", "Bcctr", "Bclr"} ->
            IF ins.op = "B" /\ ins.LK /\ ins.AA THEN {}
            ELSE Site("unwrap", ins.op \notin {"Bcctr", "Bclr"} /\ ~IsSome(branch_dest(ins)))
                    \cup (IF ins.LK \/ ins.op = "B" \/ And16(ins.BO, 20, 5) = 20 THEN {}
                          ELSE Site("cr index", (ins.BI \div 4) \notin CrIdx)
                                  \cup Site("unreachable", (ins.BI % 4) \notin 0..3))
      [] ins.op = "Lwzx" -> GprSite({ins.rA, ins.rB, ins.rD})
      [] ins.op = "Mtspr" -> IF ins.spr = 9 THEN GprSite({ins.rS}) ELSE {}
      [] ins.op = "Mfspr" -> GprSite({ins.rD})
      [] ins.op = "Rfi" -> {}
      [] is_load_store_op(ins.op) ->
            GprSite({ins.rA} \cup (IF is_load_op(ins.op) THEN {ins.rD} ELSE {}))
      [] OTHER -> GprSite(ins.defs)

RegEnds == {0, 31}
MaskEnds == {0, 1, 31}
BoForms == {0, 4, 12, 20, 31}

\* decoded instructions with the operand fields at the ends of their ranges
DecodedIns ==
    {I_Add(r, r, r) : r \in RegEnds}
        \cup {I_Addis(31, a, s) : a \in RegEnds, s \in {-32768, 32767}}
        \cup {I_Addi(op, 31, a, -32768) : op \in {"Addi", "Addic", "Addic_"}, a \in RegEnds}
        \cup {I_Ori(31, 31, 65535), I_Ori(0, 0, 0), I_Or(31, 31, 31), I_Or(0, 31, 0)}
        \cup {I_Cmp(f, l, 31, 31) : f \in {0, 7}, l \in {0, 1}}
        \cup {I_Cmpl(f, l, 31, 0) : f \in {0, 7}, l \in {0, 1}}
        \cup {I_Cmpi(f, l, 31, -32768) : f \in {0, 7}, l \in {0, 1}}
        \cup {I_Cmpli(f, l, 31, 65535) : f \in {0, 7}, l \in {0, 1}}
        \cup {I_Rlwinm(31, 31, 31, b, e) : b \in MaskEnds, e \in MaskEnds}
        \cup {I_Rlwnm(31, 31, r, m[1], m[2]) :
                r \in {3, 31}, m \in {<<0, 31>>, <<31, 0>>, <<31, 1>>}}
        \cup {I_B(LoopHead, l, a) : l \in BOOLEAN, a \in BOOLEAN}
        \cup {I_Bc(bo, bi, LoopHead, FALSE) : bo \in BoForms, bi \in RegEnds}
        \cup {I_Bc(4, 31, LoopHead, TRUE), I_Bc(12, 31, U32_MAX, TRUE)}
        \cup {I_Bcctr(bo, 31, l) : bo \in {4, 20}, l \in BOOLEAN}
        \cup {I_Bclr(bo, 31, l) : bo \in {4, 20}, l \in BOOLEAN}
        \cup {I_Lwzx(31, 31, 31), I_Lwzx(0, 0, 0)}
        \cup {I_Mtspr(s, 31) : s \in {0, 9, 1023}}
        \cup {I_Mfspr(31, s) : s \in {0, 9, 1023}}
        \cup {InsBase("Rfi"), InsBase("Illegal")}
        \cup {I_LoadStore(op, 31, 31, -32768) : op \in LoadOps \cup LoadfOps \cup StoreOps \cup StorefOps}
        \cup {I_Other("Mullw", {0, 31}), I_Other("Sync", {})}

StepResultKinds == {"Continue", "LoadStore", "Illegal", "Jump", "Branch"}

\* the one abort the VM allows itself: addis with a relocation attached and rA # 0
AssertedAddis(o, ins_addr, ins) ==
    ins.op = "Addis" /\ ins.rA # 0 /\ IsSome(relocation_target_for(o, ins_addr))

----------------------------------------------------------------------------
(* Boxed VMs.  VM::new, the clones and the Branch entries hand out         *)
(* Box<VM>; step works on the box it is called on through &mut self.  The  *)
(* fork scenario keeps every box in heap.box: heap.self is the box of the  *)
(* caller, heap.fork the boxes of the two Branch entries of the last       *)
(* result, heap.ran the forks the driver has stepped since.  vm is the     *)
(* caller's VM before the last step call made on it, res that call's       *)
(* result.                                                                 *)

\* Box::new(value): a fresh allocation, the last box of the result
Box_new(boxes, value) == Append(boxes, value)

\* the boxes after step was called on the box self and returned r: the
\* writes through &mut self, and one fresh box for each Branch entry
ForkBoxes(h, r) ==
    LET here == [h.box EXCEPT ![h.self] = r.vm]
    IN  IF r.result.t = "Branch" THEN
            LET first == Box_new(here, r.result.branches[1].vm)
                second == Box_new(first, r.result.branches[2].vm)
            IN  [h EXCEPT !.box = second, !.fork = <<Len(first), Len(second)>>, !.ran = {}]
        ELSE [h EXCEPT !.box = here, !.fork = <<>>, !.ran = {}]

\* straight-line instructions the driver steps before the control transfer
ForkPrepareMenu ==
    {I_Addi("Addi", 3, 0, 5), I_Cmpli(0, 0, 3, 7), I_Cmpi(7, 0, 14, 5), I_Cmp(0, 0, 3, 13),
     I_Or(14, 3, 3), I_Mtspr(9, 13)}

\* Illegal, rfi, b, bc, bcctr, bclr
ForkControlMenu ==
    {InsBase("Illegal"), InsBase("Rfi"),
     I_B(LoopHead, FALSE, FALSE), I_B(LoopHead, TRUE, FALSE), I_B(LoopHead, TRUE, TRUE),
     I_Bc(12, 1, LoopHead, FALSE), I_Bc(4, 1, LoopHead, FALSE), I_Bc(12, 0, LoopHead, FALSE),
     I_Bc(4, 30, LoopHead, FALSE), I_Bc(12, 1, LoopHead, TRUE), I_Bc(20, 0, LoopHead, FALSE),
     I_Bcctr(20, 0, FALSE), I_Bcctr(12, 2, FALSE), I_Bcctr(20, 0, TRUE),
     I_Bclr(20, 0, FALSE), I_Bclr(4, 2, FALSE)}

\* instructions the driver steps on the VM of a fork
ForkRunMenu ==
    {I_Addi("Addi", 3, 0, 0), I_Addi("Addi", 3, 3, 1), I_Or(14, 3, 3), I_Cmpi(0, 0, 3, 5),
     I_Rlwinm(3, 3, 2, 0, 29)}

\* a step call on the caller's box that returns Continue or LoadStore
ForkPrepare ==
    /\ heap.self # 0
    /\ steps < MaxSteps
    /\ Ready
    /\ \E ins \in ForkPrepareMenu :
        \E r \in {step(heap.box[heap.self], obj, IA(steps), ins)} :
            /\ vm' = heap.box[heap.self]
            /\ res' = r.result
            /\ heap' = ForkBoxes(heap, r)
    /\ steps' = steps + 1
    /\ UNCHANGED <<obj, pc, code, producer, leftOf, prog, done>>

\* a step call on the caller's box with a control-flow instruction
ForkControl ==
    /\ heap.self # 0
    /\ steps < MaxSteps
    /\ Ready
    /\ \E ins \in ForkControlMenu :
        \E r \in {step(heap.box[heap.self], obj, IA(steps), ins)} :
            /\ vm' = heap.box[heap.self]
            /\ res' = r.result
            /\ heap' = ForkBoxes(heap, r)
    /\ steps' = steps + 1
    /\ UNCHANGED <<obj, pc, code, producer, leftOf, prog, done>>

\* the driver steps the VM of one fork of the Branch result, in its box
ForkRun ==
    /\ res.t = "Branch"
    /\ steps <= MaxSteps
    /\ \E k \in 1..2, ins \in ForkRunMenu :
        \E r \in {step(heap.box[heap.fork[k]], obj, IA(steps), ins)} :
            heap' = [heap EXCEPT !.box[heap.fork[k]] = r.vm, !.ran = @ \cup {k}]
    /\ steps' = steps + 1
    /\ UNCHANGED <<obj, vm, res, pc, code, producer, leftOf, prog, done>>

InitFork ==
    /\ obj = SdaHost
    /\ vm = new_from_obj(obj)
    /\ res = NotStepped
    /\ steps = 0
    /\ pc = 0
    /\ code = EmptyCode
    /\ producer = NoHistory
    /\ leftOf = NoLeft
    /\ prog = NoProg
    /\ done = {}
    /\ heap = [box |-> <<new_from_obj(obj)>>, self |-> 1, fork |-> <<>>, ran |-> {}]

NextFork ==
    \/ ForkPrepare
    \/ ForkControl
    \/ ForkRun

SpecFork == InitFork /\ [][NextFork]_vars

\* C20: whenever step returns Illegal, Jump or Branch, the VM it was called
\* on equals its pre-step state; the CR refinement is found only in the
\* boxes of the forks, each fork holding its own; and stepping the VM of one
\* fork afterwards changes neither the VM of the other fork nor the VM of
\* the caller.
C20_ForkIsolation ==
    res.t \in {"Illegal", "Jump", "Branch"} =>
        /\ heap.box[heap.self] = vm
        /\ IF res.t = "Branch"
           THEN /\ Len(heap.fork) = 2
                /\ Cardinality({heap.self, heap.fork[1], heap.fork[2]}) = 3
                /\ \A k \in (1..2) \ heap.ran :
                      heap.box[heap.fork[k]] = res.branches[k].vm
           ELSE heap.fork = <<>>

\* after cmplwi cr0, r3, 7 and bgt the forks hold different ranges for r3, the
\* driver has stepped the taken fork, and the caller still holds the tag
C20_Witness ==
    /\ res.t = "Branch"
    /\ heap.ran = {2}
    /\ vm.gpr[3].value = ComparisonResult(0)
    /\ heap.box[heap.self].gpr[3].value = ComparisonResult(0)
    /\ res.branches[1].vm.gpr[3].value.t = "Range"
    /\ res.branches[2].vm.gpr[3].value.t = "Range"
    /\ res.branches[1].vm.gpr[3] # res.branches[2].vm.gpr[3]
    /\ heap.box[heap.fork[1]].gpr[3] = res.branches[1].vm.gpr[3]
    /\ heap.box[heap.fork[2]].gpr[3] # res.branches[2].vm.gpr[3]

----------------------------------------------------------------------------
(* split_values_by_crb as a function: the inputs are drawn from bounded    *)
(* sets (prog) and the result pair is kept in res.                         *)

SplitConsts == {<<0, 0>>, <<0, 1>>, <<0, 5>>, <<32768, 0>>, <<65535, 65535>>}

SplitRanges ==
    {Range(<<0, 0>>, <<0, 10>>, <<0, 1>>), Range(<<0, 4>>, <<0, 20>>, <<0, 4>>),
     Range(<<0, 0>>, <<65535, 65535>>, <<0, 1>>), Range(<<0, 6>>, <<0, 6>>, <<0, 2>>),
     Range(<<32767, 65520>>, <<32768, 16>>, <<0, 8>>)}

SplitValues ==
    {Unknown, ComparisonResult(0), Address(DataTarget), LoadIndexed(DataTarget, None)}
        \cup {Constant(c) : c \in SplitConsts} \cup SplitRanges

SplitApply ==
    /\ res = NotStepped
    /\ res' = [t |-> "Split", pair |-> split_values_by_crb(prog.crb, prog.left, prog.right)]
    /\ steps' = steps + 1
    /\ UNCHANGED <<obj, vm, pc, code, producer, leftOf, prog, done, heap>>

InitSplit ==
    /\ obj = ExeHost
    /\ vm = VM_new
    /\ res = NotStepped
    /\ steps = 0
    /\ pc = 0
    /\ code = EmptyCode
    /\ producer = NoHistory
    /\ leftOf = NoLeft
    /\ prog \in {[crb |-> b, left |-> l, right |-> r] :
                    b \in 0..3, l \in SplitValues, r \in SplitValues}
    /\ done = {}
    /\ heap = NoHeap

NextSplit == SplitApply

SpecSplit == InitSplit /\ [][NextSplit]_vars

\* c - 1 and c + 1 modulo 2^32, on the halves
Pred32(c) ==
    IF c = <<0, 0>> THEN <<Half - 1, Half - 1>>
    ELSE IF c[2] = 0 THEN <<c[1] - 1, Half - 1>> ELSE <<c[1], c[2] - 1>>

Succ32(c) ==
    IF c = <<Half - 1, Half - 1>> THEN <<0, 0>>
    ELSE IF c[2] = Half - 1 THEN <<c[1] + 1, 0>> ELSE <<c[1], c[2] + 1>>

Larger(a, b) == IF a[1] > b[1] \/ (a[1] = b[1] /\ a[2] >= b[2]) THEN a ELSE b

Smaller(a, b) == IF Larger(a, b) = a THEN b ELSE a

\* the table of <<value if false, value if true>>
SplitTable(crb, L, R) ==
    IF crb = 3 \/ R.t # "Constant" THEN <<L, L>>
    ELSE IF crb = 0 THEN
        IF L.t = "Range"
            THEN <<[t |-> "Range", min |-> Larger(L.min, R.v), max |-> Larger(L.max, R.v),
                    step |-> L.step],
                   [t |-> "Range", min |-> Smaller(L.min, Pred32(R.v)),
                    max |-> Smaller(L.max, Pred32(R.v)), step |-> L.step]>>
        ELSE <<[t |-> "Range", min |-> R.v, max |-> <<Half - 1, Half - 1>>, step |-> <<0, 1>>],
               [t |-> "Range", min |-> <<0, 0>>, max |-> Pred32(R.v), step |-> <<0, 1>>]>>
    ELSE IF crb = 1 THEN
        IF L.t = "Range"
            THEN <<[t |-> "Range", min |-> Smaller(L.min, R.v), max |-> Smaller(L.max, R.v),
                    step |-> L.step],
                   [t |-> "Range", min |-> Larger(L.min, Succ32(R.v)),
                    max |-> Larger(L.max, Succ32(R.v)), step |-> L.step]>>
        ELSE <<[t |-> "Range", min |-> <<0, 0>>, max |-> R.v, step |-> <<0, 1>>],
               [t |-> "Range", min |-> Succ32(R.v), max |-> <<Half - 1, Half - 1>>,
                step |-> <<0, 1>>]>>
    ELSE IF L.t = "Constant"
        THEN <<IF L.v = R.v THEN Unknown ELSE L, [t |-> "Constant", v |-> R.v]>>
    ELSE <<L, [t |-> "Constant", v |-> R.v]>>

\* C21: for every CR bit crb in 0..3 and every pair (L, R) of abstract values,
\* split_values_by_crb(crb, L, R) = (value_if_false, value_if_true) equals the
\* table: lt and gt clamp a Range against the constant (c - 1 and c + 1 wrap
\* modulo 2^32, the stride is kept) or build the two half-lines for any other
\* L; eq gives (Unknown if l = c else L, Const c) on constants and
\* (L, Const c) otherwise; so, and every R that is not a Constant, gives (L, L).
C21_SplitTable ==
    res.t = "Split" => res.pair = SplitTable(prog.crb, prog.left, prog.right)

\* lt on a strided range against 0: c - 1 wraps to 2^32 - 1 and the stride stays 4
C21_Witness ==
    /\ res.t = "Split"
    /\ prog.crb = 0
    /\ prog.left = Range(<<0, 4>>, <<0, 20>>, <<0, 4>>)
    /\ prog.right = Constant(<<0, 0>>)
    /\ res.pair[2] = Range(<<0, 4>>, <<0, 20>>, <<0, 4>>)
    /\ res.pair[1] = Range(<<0, 4>>, <<0, 20>>, <<0, 4>>)

----------------------------------------------------------------------------
(* A concrete register next to the abstract one: prog.v is the 32-bit      *)
(* value r3 really holds while the VM is stepped through an optional       *)
(* rlwinm, a compare of r3 against a constant and a conditional branch;    *)
(* the driver then follows the fork the concrete value takes.              *)

ConcreteValues ==
    {<<0, 0>>, <<0, 4>>, <<0, 5>>, <<0, 6>>, <<0, 300>>, <<32767, 65535>>, <<32768, 0>>,
     <<65535, 65535>>}

\* no rlwinm, clrlwi r3, r3, 24 (a Range 0..255), rlwinm with the full mask,
\* or rlwinm r3, r3, 0, 23, 23 (the single bit 0x100)
RefineMasks == {<<>>, <<24, 31>>, <<0, 31>>, <<23, 23>>}

RefineCompares ==
    {I_Cmpi(0, 0, 3, 5), I_Cmpi(0, 0, 3, -1), I_Cmpli(0, 0, 3, 5), I_Cmpli(0, 0, 3, 0)}

\* bc on lt, gt, eq of cr0, branch if true (BO = 12) and branch if false (BO = 4)
RefineBranches == {I_Bc(bo, bi, LoopHead, FALSE) : bo \in {4, 12}, bi \in 0..2}

\* signed order of two u32: the sign bit is the top bit of the high half
SLt32(a, b) ==
    LET sa == IF a[1] >= Half \div 2 THEN a[1] - Half ELSE a[1]
        sb == IF b[1] >= Half \div 2 THEN b[1] - Half ELSE b[1]
    IN  sa < sb \/ (sa = sb /\ a[2] < b[2])

\* the constant the compare instruction compares with
CompareConst(ins) == IF ins.op = "Cmpi" THEN SimmU32(ins.simm) ELSE UimmU32(ins.uimm)

\* the CR bit the processor sets for value v: lt, gt, eq of cmpwi / cmplwi
ConcreteBit(ins, bit, v) ==
    LET c == CompareConst(ins)
        lt == IF ins.op = "Cmpi" THEN SLt32(v, c) ELSE Lt32(v, c)
    IN  CASE bit = 0 -> lt
          [] bit = 1 -> ~lt /\ v # c
          [] bit = 2 -> v = c

\* the Branch entry the processor continues with: 2 (taken) or 1 (not taken)
ConcreteFork(cmp, bc, v) ==
    IF ConcreteBit(cmp, bc.BI % 4, v) = (bc.BO = 12) THEN 2 ELSE 1

RefineMask ==
    /\ done = {}
    /\ prog.mask # <<>>
    /\ \E r \in {step(vm, obj, IA(steps), I_Rlwinm(3, 3, 0, prog.mask[1], prog.mask[2]))} :
        /\ vm' = r.vm
        /\ res' = r.result
    /\ prog' = [prog EXCEPT !.v = BitAnd32(@, mask_value(prog.mask[1], prog.mask[2]))]
    /\ done' = {"rlwinm"}
    /\ steps' = steps + 1
    /\ UNCHANGED <<obj, pc, code, producer, leftOf, heap>>

RefineCompare ==
    /\ "cmp" \notin done
    /\ prog.mask = <<>> \/ "rlwinm" \in done
    /\ \E r \in {step(vm, obj, IA(steps), prog.cmp)} :
        /\ vm' = r.vm
        /\ res' = r.result
    /\ done' = done \cup {"cmp"}
    /\ steps' = steps + 1
    /\ UNCHANGED <<obj, pc, code, producer, leftOf, prog, heap>>

RefineBranch ==
    /\ "cmp" \in done
    /\ "bc" \notin done
    /\ \E r \in {step(vm, obj, IA(steps), prog.bc)} :
        /\ vm' = r.vm
        /\ res' = r.result
    /\ done' = done \cup {"bc"}
    /\ steps' = steps + 1
    /\ UNCHANGED <<obj, pc, code, producer, leftOf, prog, heap>>

RefineTake ==
    /\ "bc" \in done
    /\ "fork" \notin done
    /\ res.t = "Branch"
    /\ vm' = res.branches[ConcreteFork(prog.cmp, prog.bc, prog.v)].vm
    /\ done' = done \cup {"fork"}
    /\ UNCHANGED <<obj, res, steps, pc, code, producer, leftOf, prog, heap>>

\* the rotate-and-mask stepped on the fork: slwi r3, r3, 2 (rlwinm 2, 0, 29),
\* clrlwi r3, r3, 24 (rlwinm 0, 24, 31), rlwnm by r4 = 1 with the full mask;
\* <<>> when the trace stops at the fork
RefineRotates ==
    {<<>>, I_Rlwinm(3, 3, 2, 0, 29), I_Rlwinm(3, 3, 0, 24, 31), I_Rlwnm(3, 3, 4, 0, 31)}

\* li r4, 1: the rotate count of rlwnm
RefineCount ==
    /\ "fork" \in done
    /\ "li" \notin done
    /\ prog.rot # <<>>
    /\ prog.rot.op = "Rlwnm"
    /\ \E r \in {step(vm, obj, IA(steps), I_Addi("Addi", prog.rot.rB, 0, 1))} :
        /\ vm' = r.vm
        /\ res' = r.result
    /\ done' = done \cup {"li"}
    /\ steps' = steps + 1
    /\ UNCHANGED <<obj, pc, code, producer, leftOf, prog, heap>>

\* rlwinm / rlwnm on the fork; the processor computes (v rotl n) & mask
RefineRotate ==
    /\ "fork" \in done
    /\ "rot" \notin done
    /\ prog.rot # <<>>
    /\ prog.rot.op = "Rlwnm" => "li" \in done
    /\ \E r \in {step(vm, obj, IA(steps), prog.rot)} :
        /\ vm' = r.vm
        /\ res' = r.result
    /\ prog' = [prog EXCEPT !.v =
            BitAnd32(rotate_left(@, IF prog.rot.op = "Rlwnm" THEN 1 ELSE prog.rot.SH),
                     mask_value(prog.rot.MB, prog.rot.ME))]
    /\ done' = done \cup {"rot"}
    /\ steps' = steps + 1
    /\ UNCHANGED <<obj, pc, code, producer, leftOf, heap>>

InitRefine ==
    /\ obj = ExeHost
    /\ vm = VM_new
    /\ res = NotStepped
    /\ steps = 0
    /\ pc = 0
    /\ code = EmptyCode
    /\ producer = NoHistory
    /\ leftOf = NoLeft
    /\ prog \in {[v |-> v, mask |-> m, cmp |-> c, bc |-> b, rot |-> r] :
                    v \in ConcreteValues, m \in RefineMasks, c \in RefineCompares,
                    b \in RefineBranches, r \in RefineRotates}
    /\ done = {}
    /\ heap = NoHeap

NextRefine ==
    \/ RefineMask
    \/ RefineCompare
    \/ RefineBranch
    \/ RefineTake
    \/ RefineCount
    \/ RefineRotate

SpecRefine == InitRefine /\ [][NextRefine]_vars

\* the concrete value v is one the abstract value allows
Allows(value, v) ==
    CASE value.t = "Range" -> Le32(value.min, v) /\ Le32(v, value.max)
      [] value.t = "Constant" -> value.v = v
      [] OTHER -> TRUE

\* C22: for every compare (signed or unsigned) of a register whose abstract
\* value is Unknown or a Range against a constant, followed by a conditional
\* branch on lt, gt or eq of that CR field, the concrete value of the register
\* lies within the Range (or equals the Constant) installed for the register
\* in the fork the concrete value takes.
C22_RefinementSound ==
    ("fork" \in done /\ "rot" \notin done) => Allows(vm.gpr[3].value, prog.v)

\* cmpwi r3, 5 with r3 = -1 and blt: the taken fork holds Range 0..4 for r3
C22_Witness ==
    /\ "fork" \in done
    /\ "rot" \notin done
    /\ prog.cmp = I_Cmpi(0, 0, 3, 5)
    /\ prog.bc = I_Bc(12, 0, LoopHead, FALSE)
    /\ prog.v = <<65535, 65535>>
    /\ vm.gpr[3].value = Range(<<0, 0>>, <<0, 4>>, <<0, 1>>)

\* C23: rlwinm / rlwnm over-approximates on a Range source: whenever the
\* source holds a Range with min <= max that contains the concrete value v,
\* the Range step stores in rA contains the concrete result (v rotl n) & mask.
C23_RotateMaskSound ==
    [][("rot" \in done' /\ "rot" \notin done
            /\ vm.gpr[3].value.t = "Range"
            /\ Le32(vm.gpr[3].value.min, vm.gpr[3].value.max)
            /\ Allows(vm.gpr[3].value, prog.v))
        => (vm'.gpr[3].value.t = "Range" /\ Allows(vm'.gpr[3].value, prog'.v))]_vars

\* cmplwi r3, 5 / bge with r3 = 0x80000000, then slwi r3, r3, 2: the register
\* holds 0 and the VM holds Range 20..0xFFFFFFFC
C23_Witness ==
    /\ "rot" \in done
    /\ prog.cmp = I_Cmpli(0, 0, 3, 5)
    /\ prog.rot = I_Rlwinm(3, 3, 2, 0, 29)
    /\ prog.v = <<0, 0>>
    /\ vm.gpr[3].value = Range(<<0, 20>>, <<65535, 65532>>, <<0, 4>>)

----------------------------------------------------------------------------
(* Invariants of the values a VM holds.                                    *)

\* the VMs of a state: the one being stepped and the forks of a Branch result
StateVMs == {vm} \cup (IF res.t = "Branch" THEN {res.branches[k].vm : k \in 1..2} ELSE {})

\* the values a VM holds: GPRs, CTR and the operands of the CR fields
HeldValues(v) ==
    {v.gpr[i].value : i \in GprIdx} \cup {v.ctr}
        \cup {v.cr[c].left : c \in CrIdx} \cup {v.cr[c].right : c \in CrIdx}

\* a non-zero multiple of 4 below 2^32 - 5
TableOffset(n) ==
    /\ n # <<0, 0>>
    /\ n[2] % 4 = 0
    /\ n[1] < Half - 1 \/ n[2] < Half - 5

\* the JumpTable targets of a result: of Jump, and of the entries of Branch
ResultTargets ==
    IF res.t = "Jump" THEN {res.target}
    ELSE IF res.t = "Branch" THEN {res.branches[k].target : k \in 1..2}
    ELSE {}

\* C24: every LoadIndexed value held by a GPR or by CTR has max_offset absent
\* or a non-zero multiple of 4 below 2^32 - 5; every JumpTable target returned
\* by step has size absent or a multiple of 4 that is at least 8, equal to
\* max_offset + 4 computed without overflow.
C24_TableExtent ==
    /\ \A v \in StateVMs : \A x \in {v.gpr[i].value : i \in GprIdx} \cup {v.ctr} :
          (x.t = "LoadIndexed" /\ x.max_offset # None) => TableOffset(x.max_offset[1])
    /\ \A b \in ResultTargets :
          (b.t = "JumpTable" /\ b.size # None) =>
              /\ b.size[1][2] % 4 = 0
              /\ b.size[1][1] > 0 \/ b.size[1][2] >= 8
              /\ vm.ctr.t = "LoadIndexed"
              /\ vm.ctr.max_offset # None
              /\ vm.ctr.max_offset[1][1] < Half - 1 \/ vm.ctr.max_offset[1][2] + 4 < Half
              /\ b.size[1] = IF vm.ctr.max_offset[1][2] + 4 < Half
                                THEN <<vm.ctr.max_offset[1][1], vm.ctr.max_offset[1][2] + 4>>
                                ELSE <<vm.ctr.max_offset[1][1] + 1, vm.ctr.max_offset[1][2] + 4 - Half>>

\* bctr on a bounded table: CTR holds LoadIndexed with an extent and step
\* returns the JumpTable target with size = extent + 4
C24_Witness ==
    /\ res.t = "Jump"
    /\ res.target.t = "JumpTable"
    /\ res.target.size # None
    /\ vm.ctr.t = "LoadIndexed"
    /\ vm.ctr.max_offset # None
    /\ \E i \in GprIdx : vm.gpr[i].value = vm.ctr

\* C25: every value of shape Range held by a GPR, by a CR field's left or
\* right operand or by CTR satisfies min <= max.
C25_WellFormedRanges ==
    \A v \in StateVMs : \A x \in HeldValues(v) :
        x.t = "Range" => Le32(x.min, x.max)

\* rlwinm r3, r3, 0, 23, 23 / cmplwi r3, 5 / bge / clrlwi r3, r3, 24 leaves
\* r3 = Range 5..0
C25_Witness ==
    /\ "rot" \in done
    /\ prog.mask = <<23, 23>>
    /\ vm.gpr[3].value = Range(<<0, 5>>, <<0, 0>>, <<0, 1>>)

----------------------------------------------------------------------------
(* Base write-back of update-form accesses.                                *)

WriteBackOps == {"Lwzu", "Lbzu", "Stwu", "Lfsu", "Stfdu"}

\* the value that describes pre-step base + simm: the Address of the resolved
\* effective address, if the base is known
UpdatedBase(v, a, rA, simm) ==
    LET pre == v.gpr[rA].value
    IN  CASE pre.t = "Constant" ->
                LET ea == section_address_for(obj, a, wrapping_add(pre.v, SimmU32(simm)))
                IN  IF ea = None THEN {} ELSE {Address(ea[1])}
          [] pre.t = "Address" /\ pre.target.t = "Address" ->
                {Address(RT_Address(SA_offset(pre.target.sa, simm)))}
          [] OTHER -> {}

\* C26: after step on an update-form load / store with displacement simm, the
\* base register rA holds the Address of the resolved effective address
\* (pre-step base + simm) or Unknown, never the unchanged pre-step
\* Constant(base) nor an Address that omits the displacement.  The law is
\* stated where the base entry describes the register exactly: no relocation
\* is attached to the access, and an Address base has been completed by its
\* low half (after lis with a relocation alone the register holds the high
\* half only).
C26_NoStaleBase ==
    (Ready /\ ~IsSome(relocation_target_for(obj, IA(pc)))) =>
        \A op \in WriteBackOps, rA \in {3, 13, 14}, simm \in {8, -16} :
            (vm.gpr[rA].value.t = "Address" => IsSome(vm.gpr[rA].lo_addr)) =>
                \A r \in {step(vm, obj, IA(pc), I_LoadStore(op, 0, rA, simm))} :
                    r.vm.gpr[rA].value \in {Unknown} \cup UpdatedBase(vm, IA(pc), rA, simm)

\* r3 holds a Constant that resolves to no section: lwzu r0, 8(r3) leaves it
C26_Witness ==
    /\ Ready
    /\ ~IsSome(relocation_target_for(obj, IA(pc)))
    /\ vm.gpr[3].value.t = "Constant"
    /\ section_address_for(obj, IA(pc), wrapping_add(vm.gpr[3].value.v, SimmU32(8))) = None
    /\ step(vm, obj, IA(pc), I_LoadStore("Lwzu", 0, 3, 8)).vm.gpr[3].value = vm.gpr[3].value

====
